---------------------------- MODULE Spec2Model ----------------------------
(***************************************************************************)
(* Model of the KBB scraper: extraction, export, batch and parallel merge. *)
(*                                                                         *)
(*   SpecExport    one CsvExporter appending to one CSV file               *)
(*   SpecShared    two CsvExporters appending to the same CSV file         *)
(*   SpecBatch     the batch-file loop of kbb_scraper.main                 *)
(*   SpecParallel  run_parallel: launch workers, wait, merge               *)
(*   SpecRuns      run_parallel invoked several times                      *)
(*   SpecRepeat    run_parallel --run twice over the same targets          *)
(*   SpecMergeOnly, SpecMergeReviews   merge_all over given worker outputs *)
(*   SpecSplit     split_combinations on its own                           *)
(*   SpecSelect    select_body_type: the click and the poll loop           *)
(*   SpecNavigate  navigate_to_car_model on what the browser shows         *)
(*   SpecIds       generate_vehicle_id on its own                          *)
(*   SpecLookup    SchemaTransformer._build_spec_lookup on its own         *)
(*   SpecParse     the value parsers on short inputs                       *)
(*   SpecTransform SchemaTransformer.transform on its own                  *)
(*   SpecTabs      scrape_car_model over several body-type tabs            *)
(*   SpecTable     from the comparison table to the CSV rows               *)
(*                                                                         *)
(* Python values are modelled as strings, Python lists as sequences, and   *)
(* Python dicts as functions whose DOMAIN is the set of keys present.      *)
(* A CSV file is the sequence of its lines, each line a sequence of cells; *)
(* a file that does not exist is NoFile.                                   *)
(***************************************************************************)
EXTENDS Integers, Sequences, FiniteSets, TLC

VARIABLES
    csv,        \* content of the CSV file the exporters of SpecExport/SpecShared append to
    ex,         \* per exporter: position inside append_to_csv and its locals
    calls,      \* number of export / append_to_csv calls started so far
    lastCall,   \* history: data and rows of the last call, the file before it
    prevData,   \* history: data of the call before the last one
    firstLine,  \* history: natural key -> the line first appended for it
    lineBy      \* history: per line of csv, who appended it and what it had loaded

exportVars == <<csv, ex, calls, lastCall, prevData, firstLine, lineBy>>

VARIABLES
    bpc,            \* position of the batch-file branch of main: "loop", "recreate", "create", "done"
    bi,             \* enumerate index of the next batch item (from 1)
    flags,          \* args.with_reviews, args.export_db
    successful,     \* main's counter
    failed,         \* main's counter
    failed_models,  \* main's list of failed targets
    drivers,        \* every WebDriver created so far: "open", "dead" (crashed) or "closed" (quit)
    scraper,        \* index in drivers of scraper.driver
    reviews_scraper,\* index in drivers of reviews_scraper.driver, 0 for None
    tlog            \* history: one record per batch item processed

batchVars == <<bpc, bi, flags, successful, failed, failed_models, drivers, scraper,
               reviews_scraper, tlog>>

VARIABLES
    opc,         \* position of run_parallel.main: "start", "launching", "waiting", "merge", "exit"
    plan,        \* the invocations of run_parallel still to come: "run" (--run) or "merge_only"
    mode,        \* the invocation in progress (or the last one)
    procs,       \* launch_workers: number of worker processes started (len(procs))
    wi,          \* launch_workers: position of the wait loop in procs
    pfailed,     \* launch_workers: its counter failed
    proc,        \* per worker process: state, start time, result of its main, returncode
    disk,        \* the files below data/: path -> content
    now,         \* the wall clock, in seconds
    exit_status, \* exit status of the last run_parallel invocation, -1 before the first exit
    written,     \* history: the files written since the run started, with their writer
    plog,        \* history: the workers alive when merge_all started, whether it has run
    mlog         \* history: the order in which the workers exited, every merge_all so far

parVars == <<opc, plan, mode, procs, wi, pfailed, proc, disk, now, exit_status, written, plog,
             mlog>>

VARIABLES
    fcall,       \* the call in progress of a function studied on its own: its name and arguments
    fret         \* what that call returned

fnVars == <<fcall, fret>>

vars == <<exportVars, batchVars, parVars, fnVars>>

----------------------------------------------------------------------------
(* Bounds of the model *)

MaxCalls == 3           \* export / append_to_csv calls per behaviour
MaxBatch == 3           \* items in the batch file
NumWorkers == 2         \* worker processes of a parallel run (--workers)
MaxClock == 2           \* the clock stops ticking at this second
MaxRuns == 2            \* invocations of run_parallel in SpecRuns

----------------------------------------------------------------------------
(* Generic helpers *)

Range(s) == {s[i] : i \in 1..Len(s)}

RECURSIVE ConcatAll(_)
ConcatAll(ss) == IF ss = <<>> THEN <<>> ELSE Head(ss) \o ConcatAll(Tail(ss))

IndexOf(s, x) == IF x \in Range(s) THEN CHOOSE i \in 1..Len(s) : s[i] = x ELSE 0

\* dict.get(k, default)
Get(d, k, default) == IF k \in DOMAIN d THEN d[k] ELSE default

\* d[k] = v on a dict
Put(d, k, v) == [x \in (DOMAIN d) \cup {k} |-> IF x = k THEN v ELSE d[x]]

----------------------------------------------------------------------------
(* csv_exporter.py *)

NoFile == <<>>

\* The column schema, cut to the identity columns and three spec columns.
FIXED_COLUMNS ==
    <<"make", "model", "year", "bodytype", "trim", "Engine", "Turning Diameter", "0 - 60">>

FIXED_SET == Range(FIXED_COLUMNS)

DEDUP_KEYS == <<"make", "model", "year", "bodytype", "trim">>

LABEL_ALIASES == [l \in {"Turning Circle", "0 to 60"} |->
                    IF l = "Turning Circle" THEN "Turning Diameter" ELSE "0 - 60"]

\* Labels matching _TRIM_NAME_RE, among the labels the model draws from.
TrimNameLabels == {"LX Sedan 4D"}

is_trim_name(label) == label \in TrimNameLabels

\* tuple(row.get(k, "") for k in _DEDUP_KEYS)
KeyOf(row) == [i \in 1..Len(DEDUP_KEYS) |-> Get(row, DEDUP_KEYS[i], "")]

\* csv.DictWriter(fieldnames, extrasaction="ignore").writerow(row):
\* one cell per field name, "" for a missing one, other keys dropped.
WriteRow(fieldnames, row) == [i \in 1..Len(fieldnames) |-> Get(row, fieldnames[i], "")]

\* csv.DictReader: the first line gives the field names, every later line
\* is a dict from field name to cell (cells beyond the header are dropped,
\* missing cells are absent from the dict as far as .get() is concerned).
ReadRow(fieldnames, line) ==
    [c \in {fieldnames[i] : i \in 1..(IF Len(line) < Len(fieldnames) THEN Len(line) ELSE Len(fieldnames))} |->
        line[IndexOf(fieldnames, c)]]

DictReader(file) ==
    IF file = NoFile THEN <<>>
    ELSE [i \in 1..(Len(file) - 1) |-> ReadRow(file[1], file[i + 1])]

\* CsvExporter._load_existing_keys
LoadExistingKeys(file) ==
    IF file = NoFile THEN {}
    ELSE {KeyOf(r) : r \in Range(DictReader(file))}

\* Mutant: the key set is never loaded (as if the file could never be read).
LoadExistingKeysNone(file) == {}

load_existing_keys(file) == LoadExistingKeys(file)

\* The loop of append_to_csv (lines 219-225): rows whose key is in
\* existing_keys are skipped, every kept key is added to existing_keys.
RECURSIVE NewRows(_, _)
NewRows(rows, existing_keys) ==
    IF rows = <<>> THEN <<>>
    ELSE LET key == KeyOf(Head(rows)) IN
         IF key \in existing_keys
         THEN NewRows(Tail(rows), existing_keys)
         ELSE <<Head(rows)>> \o NewRows(Tail(rows), existing_keys \cup {key})

\* Mutant: a kept key is not added to existing_keys.
RECURSIVE NewRowsNoAdd(_, _)
NewRowsNoAdd(rows, existing_keys) ==
    IF rows = <<>> THEN <<>>
    ELSE LET key == KeyOf(Head(rows)) IN
         IF key \in existing_keys
         THEN NewRowsNoAdd(Tail(rows), existing_keys)
         ELSE <<Head(rows)>> \o NewRowsNoAdd(Tail(rows), existing_keys)

\* Mutant: no row is skipped.
NewRowsNoSkip(rows, existing_keys) == rows

new_rows_of(rows, existing_keys) == NewRows(rows, existing_keys)

\* Lines 234-242: open in append mode, header only when the file did not
\* exist, then one line per new row.
WriteRows(file, file_exists, new_rows) ==
    file \o (IF file_exists THEN <<>> ELSE <<FIXED_COLUMNS>>)
         \o [i \in 1..Len(new_rows) |-> WriteRow(FIXED_COLUMNS, new_rows[i])]

\* CsvExporter.append_to_csv run without interruption.
AppendToCsv(file, rows) ==
    LET new_rows == new_rows_of(rows, load_existing_keys(file)) IN
    IF new_rows = <<>> THEN file
    ELSE WriteRows(file, file # NoFile, new_rows)

\* Lines 136-148 of flatten_one_scrape: alias the label, first occurrence
\* wins, labels that look like trim names are rejected.
RECURSIVE LabelValues(_, _)
LabelValues(specs, seen_labels) ==
    IF specs = <<>> THEN <<>>
    ELSE LET raw_label == Head(specs).label
             label == Get(LABEL_ALIASES, raw_label, raw_label)
         IN IF label \in seen_labels \/ is_trim_name(label)
            THEN LabelValues(Tail(specs), seen_labels)
            ELSE <<[label |-> label, values |-> Head(specs).values]>>
                 \o LabelValues(Tail(specs), seen_labels \cup {label})

\* Lines 160-183 for labels that are neither parsed-only nor "Fuel Economy":
\* a label of the schema is written as is, any other label is ignored.
RECURSIVE FillRow(_, _, _)
FillRow(row, label_values, trim_idx) ==
    IF label_values = <<>> THEN row
    ELSE LET lv == Head(label_values)
             val == IF trim_idx <= Len(lv.values) THEN lv.values[trim_idx] ELSE ""
         IN FillRow(IF lv.label \in FIXED_SET THEN Put(row, lv.label, val) ELSE row,
                    Tail(label_values), trim_idx)

\* Lines 128-185 for one body type.
FlattenBodyType(make, model, year, bt) ==
    IF bt.trim_names = <<>> THEN <<>>
    ELSE LET label_values == LabelValues(bt.specifications, {}) IN
         [t \in 1..Len(bt.trim_names) |->
            FillRow([c \in Range(DEDUP_KEYS) |->
                        CASE c = "make" -> make
                          [] c = "model" -> model
                          [] c = "year" -> year
                          [] c = "bodytype" -> bt.name
                          [] OTHER -> bt.trim_names[t]],
                    label_values, t)]

\* CsvExporter.flatten_one_scrape; data.bodytypes is the dict in insertion order.
FlattenOneScrape(data) ==
    ConcatAll([b \in 1..Len(data.bodytypes) |->
                FlattenBodyType(data.make, data.model, data.year, data.bodytypes[b])])

\* CsvExporter.export
Export(file, data) ==
    LET rows == FlattenOneScrape(data) IN
    IF rows # <<>> THEN AppendToCsv(file, rows) ELSE file

----------------------------------------------------------------------------
(* Inputs of the exporter specifications *)

Spec1(label, v1, v2) == [label |-> label, values |-> <<v1, v2>>]

BodyType(name, trims, specs) == [name |-> name, trim_names |-> trims, specifications |-> specs]

Result(year, bodytypes) ==
    [make |-> "Audi", model |-> "A3", year |-> year, bodytypes |-> bodytypes, blocked |-> FALSE]

\* Scrape results handed to export: two trims, a repeated trim name, two body
\* types, a changed value for a key seen before, aliased / duplicated /
\* unmapped / trim-name labels, and a result without body types.
ScrapeResults ==
    { Result("2017", <<BodyType("Sedan", <<"LX", "EX">>, <<Spec1("Engine", "2.0L", "2.5L")>>)>>),
      Result("2017", <<BodyType("Sedan", <<"LX", "LX">>, <<Spec1("Engine", "1.8L", "3.0L")>>)>>),
      Result("2017", <<BodyType("Sedan", <<"EX">>, <<Spec1("Turning Circle", "36", "37"),
                                                     Spec1("Turning Diameter", "40", "41"),
                                                     Spec1("Warranty", "3y", "5y"),
                                                     Spec1("LX Sedan 4D", "x", "y")>>),
                       BodyType("Coupe", <<"LX">>, <<Spec1("Engine", "2.0T", "N/A")>>)>>),
      Result("2018", <<BodyType("Sedan", <<"LX">>, <<>>), BodyType("Wagon", <<>>, <<>>)>>),
      Result("2018", <<>>) }

\* Row lists handed to append_to_csv directly; the last row has no "trim"
\* and carries a column that is not in the schema.
RowLists ==
    { <<[make |-> "Audi", model |-> "A3", year |-> "2017", bodytype |-> "Sedan",
         trim |-> "LX", Engine |-> "1.4L"]>>,
      <<[make |-> "Audi", model |-> "A3", year |-> "2019", bodytype |-> "Sedan", note |-> "n"],
        [make |-> "Audi", model |-> "A3", year |-> "2019", bodytype |-> "Sedan", trim |-> ""]>> }

Exporters == {1, 2}

IdleExporter == [pc |-> "idle", rows |-> <<>>, existing_keys |-> {}, file_exists |-> FALSE,
                 loadedAt |-> 0]

NoCall == [kind |-> "none", data |-> <<>>, rows |-> <<>>, before |-> NoFile]

InitExport ==
    /\ csv = NoFile
    /\ ex = [e \in Exporters |-> IdleExporter]
    /\ calls = 0
    /\ lastCall = NoCall
    /\ prevData = [kind |-> "none", data |-> <<>>]
    /\ firstLine = <<>>
    /\ lineBy = <<>>

\* History: the lines appended by a step, attributed to exporter e.
Record(e, old, new, loadedAt) ==
    /\ lineBy' = lineBy \o [i \in 1..(Len(new) - Len(old)) |-> [by |-> e, loadedAt |-> loadedAt]]
    /\ firstLine' =
         LET added == {i \in (Len(old) + 1)..Len(new) : i > 1}
             keyAt(i) == KeyOf(ReadRow(new[1], new[i]))
             fresh == {keyAt(i) : i \in added} \ DOMAIN firstLine
         IN [k \in (DOMAIN firstLine) \cup fresh |->
                IF k \in DOMAIN firstLine THEN firstLine[k]
                ELSE new[CHOOSE i \in added : keyAt(i) = k /\ \A j \in added : keyAt(j) = k => i <= j]]

\* exporter 1 runs CsvExporter.export(data) to completion
DoExport(data) ==
    /\ calls < MaxCalls
    /\ csv' = Export(csv, data)
    /\ calls' = calls + 1
    /\ lastCall' = [kind |-> "export", data |-> data, rows |-> FlattenOneScrape(data),
                     before |-> csv]
    /\ prevData' = [kind |-> lastCall.kind, data |-> lastCall.data]
    /\ Record(1, csv, csv', Len(csv))
    /\ UNCHANGED <<ex, batchVars, fnVars, parVars>>

\* exporter 1 runs CsvExporter.append_to_csv(rows) to completion
DoAppend(rows) ==
    /\ calls < MaxCalls
    /\ csv' = AppendToCsv(csv, rows)
    /\ calls' = calls + 1
    /\ lastCall' = [kind |-> "append", data |-> rows, rows |-> rows, before |-> csv]
    /\ prevData' = [kind |-> lastCall.kind, data |-> lastCall.data]
    /\ Record(1, csv, csv', Len(csv))
    /\ UNCHANGED <<ex, batchVars, fnVars, parVars>>

\* The batch-loop variables when no batch runs.
InitBatchIdle ==
    /\ bpc = "done"
    /\ bi = 1
    /\ flags = [with_reviews |-> FALSE, export_db |-> FALSE]
    /\ successful = 0
    /\ failed = 0
    /\ failed_models = <<>>
    /\ drivers = <<>>
    /\ scraper = 0
    /\ reviews_scraper = 0
    /\ tlog = <<>>

\* No function is being called on its own.
NoCallYet == [fn |-> "none"]

InitFnIdle ==
    /\ fcall = NoCallYet
    /\ fret = <<>>

NextExport ==
    \/ \E data \in ScrapeResults : DoExport(data)
    \/ \E rows \in RowLists : DoAppend(rows)

NoProc == [st |-> "none", last |-> 0, pos |-> 1, successful |-> 0, returncode |-> 0]

NoFiles == [p \in {} |-> NoFile]

\* run_parallel is not running, no file exists below data/
InitParallelIdle ==
    /\ opc = "start"
    /\ plan = <<>>
    /\ mode = "none"
    /\ procs = 0
    /\ wi = 1
    /\ pfailed = 0
    /\ proc = [w \in 1..NumWorkers |-> NoProc]
    /\ disk = NoFiles
    /\ now = 0
    /\ exit_status = -1
    /\ written = {}
    /\ plog = [alive_at_merge |-> {}, merged |-> FALSE]
    /\ mlog = [finish_order |-> <<>>, merges |-> <<>>]

InitExportOnly == InitExport /\ InitBatchIdle /\ InitParallelIdle /\ InitFnIdle

SpecExport == InitExportOnly /\ [][NextExport]_vars

----------------------------------------------------------------------------
(* Two exporters on one file: append_to_csv interleaved at its file accesses *)

\* Results exported in SpecShared.
SharedResults ==
    { Result("2017", <<BodyType("Sedan", <<"LX", "EX">>, <<Spec1("Engine", "2.0L", "2.5L")>>)>>),
      Result("2017", <<BodyType("Sedan", <<"LX">>, <<Spec1("Engine", "1.8L", "3.0L")>>)>>),
      Result("2018", <<>>) }

\* export(data) up to and including _load_existing_keys and the dedup loop
\* (lines 108-110, 213-232); the call is over when nothing is new.
BeginExport(e, data) ==
    /\ ex[e].pc = "idle"
    /\ calls < MaxCalls
    /\ calls' = calls + 1
    /\ LET rows == FlattenOneScrape(data)
           existing_keys == IF rows = <<>> THEN {} ELSE load_existing_keys(csv)
           new_rows == new_rows_of(rows, existing_keys)
       IN ex' = [ex EXCEPT ![e] =
                    IF new_rows = <<>> THEN IdleExporter
                    ELSE [pc |-> "filtered", rows |-> new_rows, existing_keys |-> existing_keys,
                          file_exists |-> FALSE, loadedAt |-> Len(csv)]]
    /\ UNCHANGED <<csv, lastCall, prevData, firstLine, lineBy, batchVars, fnVars, parVars>>

\* line 234: file_exists = self.csv_path.exists()
CheckExists(e) ==
    /\ ex[e].pc = "filtered"
    /\ ex' = [ex EXCEPT ![e].pc = "open", ![e].file_exists = (csv # NoFile)]
    /\ UNCHANGED <<csv, calls, lastCall, prevData, firstLine, lineBy, batchVars, fnVars, parVars>>

\* lines 235-242: the rows are appended
WriteOut(e) ==
    /\ ex[e].pc = "open"
    /\ csv' = WriteRows(csv, ex[e].file_exists, ex[e].rows)
    /\ ex' = [ex EXCEPT ![e] = IdleExporter]
    /\ Record(e, csv, csv', ex[e].loadedAt)
    /\ UNCHANGED <<calls, lastCall, prevData, batchVars, fnVars, parVars>>

NextShared ==
    \/ \E e \in Exporters, data \in SharedResults : BeginExport(e, data)
    \/ \E e \in Exporters : CheckExists(e)
    \/ \E e \in Exporters : WriteOut(e)

SpecShared == InitExportOnly /\ [][NextShared]_vars

----------------------------------------------------------------------------
(* Claims about the CSV exporter *)

KeyAt(file, i) == KeyOf(ReadRow(file[1], file[i]))

\* C1: with a single writer the store holds at most one row per natural key
\* (make, model, year, bodytype, trim), and the row first written for a key
\* is the row the store holds for it.
C1_OneRowPerKey ==
    /\ \A i, j \in 2..Len(csv) : KeyAt(csv, i) = KeyAt(csv, j) => i = j
    /\ \A i \in 2..Len(csv) :
          KeyAt(csv, i) \in DOMAIN firstLine /\ csv[i] = firstLine[KeyAt(csv, i)]
    /\ \A k \in DOMAIN firstLine : \E i \in 2..Len(csv) : KeyAt(csv, i) = k

\* C1 witness: the last call carried a row whose key was already persisted,
\* with other content, and that row is not in the store.
C1_SkippedConflictingRow ==
    \E r \in 1..Len(lastCall.rows) :
        /\ KeyOf(lastCall.rows[r]) \in LoadExistingKeys(lastCall.before)
        /\ WriteRow(FIXED_COLUMNS, lastCall.rows[r]) \notin Range(csv)

\* C2: exporting the scrape result that was exported by the previous call
\* leaves the store, header included, exactly as it was before the call.
C2_SecondExportChangesNothing ==
    (lastCall.kind = "export" /\ prevData.kind = "export" /\ lastCall.data = prevData.data)
        => csv = lastCall.before

\* C2 witness: a result with rows was exported twice in a row.
C2_ExportedTwice ==
    /\ lastCall.kind = "export" /\ prevData.kind = "export"
    /\ lastCall.data = prevData.data
    /\ lastCall.rows # <<>>
    /\ Len(csv) > 1

\* C3: in a file shared by two exporters, two rows with one natural key are
\* written by different exporters, the later one by an exporter that loaded
\* the existing keys before the earlier row was appended; such a file is
\* reachable (C3_SharedFileHoldsDuplicate).
C3_DuplicateOnlyByStaleKeys ==
    \A i, j \in 2..Len(csv) :
        (i < j /\ KeyAt(csv, i) = KeyAt(csv, j))
            => (lineBy[j].by # lineBy[i].by /\ lineBy[j].loadedAt < i)

\* C3 witness: the shared file holds two data rows with the same natural key.
C3_SharedFileHoldsDuplicate ==
    \E i, j \in 2..Len(csv) :
        /\ i < j
        /\ KeyAt(csv, i) = KeyAt(csv, j)
        /\ csv[i] # FIXED_COLUMNS /\ csv[j] # FIXED_COLUMNS

----------------------------------------------------------------------------
(* kbb_scraper.py: navigation and scraping of one target *)

\* What the site serves for a target, as far as the scraper looks at it:
\*   blk       a block / CAPTCHA indicator is in the title or page text
\*   nf        the title holds "404" or the page "Page Not Found"
\*   specsUrl  the resolved URL ends with /specs
\*   container the element compare-trim-tables appears within the wait
\*   tables    number of <table> elements
\*   tabs      the names get_all_body_types extracts (none: a single-body-type page)
\*   content   per tab, what scrape_current_body_type_data returns while it is shown
\*   clickable the tabs select_body_type manages to click
\*   styles    the style links of the overview page, each with the specs of its page
Page(blk, nf, specsUrl, container, tables, tabs, content, clickable, styles) ==
    [blk |-> blk, nf |-> nf, specsUrl |-> specsUrl, container |-> container,
     tables |-> tables, tabs |-> tabs, content |-> content, clickable |-> clickable,
     styles |-> styles]

NoData == [trim_names |-> <<>>, specifications |-> <<>>]

\* KBBResearchScraper.navigate_to_car_model; alive is whether driver.get
\* succeeds (an exception anywhere in the method gives "not_found").
NavigateToCarModel(page, alive) ==
    IF ~alive THEN "not_found"
    ELSE IF page.blk THEN "blocked"
    ELSE IF page.nf THEN "not_found"
    ELSE IF ~page.specsUrl THEN "overview"
    ELSE IF ~page.container /\ page.tables = 0 THEN "not_found"
    ELSE "specs"

\* KBBResearchScraper.get_all_body_types
GetAllBodyTypes(page, alive) ==
    IF ~alive \/ page.tabs = <<>> THEN <<"Default">> ELSE page.tabs

\* KBBResearchScraper.scrape_current_body_type_data with tab shown
ScrapeCurrentBodyTypeData(page, tab, alive) ==
    IF alive /\ tab \in DOMAIN page.content THEN page.content[tab] ELSE NoData

\* KBBResearchScraper.select_body_type
SelectBodyType(page, tab, alive) == alive /\ tab \in page.clickable

\* Lines 866-880: the tabs after the first, each clicked and then scraped.
RECURSIVE ScrapeOtherTabs(_, _, _)
ScrapeOtherTabs(page, tabs, alive) ==
    IF tabs = <<>> THEN <<>>
    ELSE LET data == ScrapeCurrentBodyTypeData(page, Head(tabs), alive) IN
         (IF SelectBodyType(page, Head(tabs), alive)
             /\ (data.trim_names # <<>> \/ data.specifications # <<>>)
          THEN <<BodyType(Head(tabs), data.trim_names, data.specifications)>>
          ELSE <<>>)
         \o ScrapeOtherTabs(page, Tail(tabs), alive)

\* Lines 840-880: the body types of a specs page.
ScrapeSpecsPage(page, alive) ==
    LET body_types == GetAllBodyTypes(page, alive) IN
    IF body_types = <<"Default">>
    THEN LET data == ScrapeCurrentBodyTypeData(page, "Default", alive) IN
         <<BodyType("Default", data.trim_names, data.specifications)>>
    ELSE LET data == ScrapeCurrentBodyTypeData(page, body_types[1], alive) IN
         (IF data.trim_names # <<>> \/ data.specifications # <<>>
          THEN <<BodyType(body_types[1], data.trim_names, data.specifications)>>
          ELSE <<>>)
         \o ScrapeOtherTabs(page, Tail(body_types), alive)

\* The first style page that yields specs (lines 780-788).
RECURSIVE FirstStyleSpecs(_)
FirstStyleSpecs(styles) ==
    IF styles = <<>> THEN <<>>
    ELSE IF Head(styles).specs # <<>> THEN Head(styles).specs
    ELSE FirstStyleSpecs(Tail(styles))

\* Number of style pages visited by that loop.
RECURSIVE StylePagesVisited(_)
StylePagesVisited(styles) ==
    IF styles = <<>> THEN 0
    ELSE IF Head(styles).specs # <<>> THEN 1
    ELSE 1 + StylePagesVisited(Tail(styles))

\* values * num_trims
RECURSIVE Repeat(_, _)
Repeat(values, n) == IF n = 0 THEN <<>> ELSE values \o Repeat(values, n - 1)

\* KBBResearchScraper._scrape_overview_styles
ScrapeOverviewStyles(page, alive) ==
    LET style_links == IF alive THEN page.styles ELSE <<>>
        specs == FirstStyleSpecs(style_links)
        num_trims == Len(style_links)
    IN IF style_links = <<>> \/ specs = <<>> THEN <<>>
       ELSE <<BodyType("Default",
                       [i \in 1..num_trims |-> style_links[i].name],
                       [i \in 1..Len(specs) |->
                           [label |-> specs[i].label,
                            values |-> Repeat(specs[i].values, num_trims)]])>>

\* KBBResearchScraper.scrape_car_model.  alive0: the session answers when the
\* call starts; alive1: it still answers once navigation is over.
\* Returns the result, the navigation outcome, the number of driver.get
\* calls and whether save_results was called.
ScrapeCarModel(target, page, alive0, alive1) ==
    LET nav_result == NavigateToCarModel(page, alive0)
        all_data == [make |-> target.make, model |-> target.model, year |-> target.year,
                     bodytypes |-> <<>>, blocked |-> FALSE]
    IN CASE nav_result = "not_found" ->
              [data |-> all_data, nav |-> nav_result, gets |-> 1, saved |-> FALSE]
         [] nav_result = "blocked" ->
              [data |-> [all_data EXCEPT !.blocked = TRUE], nav |-> nav_result, gets |-> 1,
               saved |-> FALSE]
         [] nav_result = "overview" ->
              [data |-> [all_data EXCEPT !.bodytypes = ScrapeOverviewStyles(page, alive1)],
               nav |-> nav_result,
               gets |-> 1 + (IF alive1 THEN StylePagesVisited(page.styles) ELSE 0),
               saved |-> TRUE]
         [] OTHER ->
              [data |-> [all_data EXCEPT !.bodytypes = ScrapeSpecsPage(page, alive1)],
               nav |-> nav_result, gets |-> 1, saved |-> TRUE]

\* Mutant: a not-found or blocked page is loaded a second time.
ScrapeCarModelRetry(target, page, alive0, alive1) ==
    LET r == ScrapeCarModel(target, page, alive0, alive1) IN
    IF r.nav \in {"not_found", "blocked"} THEN [r EXCEPT !.gets = 2] ELSE r

scrape_car_model(target, page, alive0, alive1) == ScrapeCarModel(target, page, alive0, alive1)

----------------------------------------------------------------------------
(* main.py: the batch-file loop *)

\* validate_and_summarize_results
ValidateAndSummarizeResults(results) == results.bodytypes # <<>>

validate_and_summarize_results(results) == ValidateAndSummarizeResults(results)

\* all([make, model, year])
ValidModelInfo(info) == info.make # "" /\ info.model # "" /\ info.year # ""

\* SchemaTransformer.transform yields a vehicle: some body type has both
\* trim names and specifications (export_to_4table_format writes files then).
TransformsToVehicles(data) ==
    \E b \in 1..Len(data.bodytypes) :
        data.bodytypes[b].trim_names # <<>> /\ data.bodytypes[b].specifications # <<>>

\* What may go wrong while one item is processed:
\*   die_nav      the session dies before or in driver.get of the specs URL
\*   die_scrape   it dies once navigation is over, before anything is scraped
\*   die_reviews  it dies in scrape_reviews between _navigate and page_source
\*   err_reviews  scrape_reviews raises while the session stays alive
Faults == {"none", "die_nav", "die_scrape", "die_reviews", "err_reviews"}

\* One pass of the try block and its except clause (lines 315-331), without
\* the liveness probe.  alive: the session answers when the pass starts.
TryItem(target, page, fault, alive, with_reviews, export_db) ==
    LET alive0 == alive /\ fault # "die_nav"
        alive1 == alive0 /\ fault # "die_scrape"
        r == scrape_car_model(target, page, alive0, alive1)
        valid == validate_and_summarize_results(r.data)
        threw == valid /\ with_reviews /\ alive1 /\ fault \in {"die_reviews", "err_reviews"}
    IN [data |-> r.data, nav |-> r.nav, gets |-> r.gets, saved |-> r.saved,
        dSuccessful |-> IF valid THEN 1 ELSE 0,
        dFailed |-> IF ~valid \/ threw THEN 1 ELSE 0,
        listed |-> ~valid \/ threw,
        threw |-> threw,
        wrote4table |-> valid /\ export_db /\ TransformsToVehicles(r.data),
        savedReviews |-> valid /\ with_reviews /\ ~threw,
        aliveEnd |-> alive1 /\ ~(valid /\ with_reviews /\ fault = "die_reviews")]

YearOf(i) == CASE i = 1 -> "2017" [] i = 2 -> "2018" [] i = 3 -> "2019" [] OTHER -> "2020"

\* The batch file: well-formed records, the last one without a make.
Batch == [i \in 1..MaxBatch |->
            [make |-> IF i = MaxBatch THEN "" ELSE "Audi", model |-> "A3", year |-> YearOf(i)]]

TrimsLXEX == <<"LX", "EX">>
EngineRow == <<Spec1("Engine", "2.0L", "2.5L")>>

\* A block page.
BlockedPage == Page(TRUE, FALSE, TRUE, TRUE, 1, <<>>, <<>>, {}, <<>>)

\* A specs page without body-type tabs, with two trims and one specification.
FullPage ==
    Page(FALSE, FALSE, TRUE, TRUE, 1, <<>>,
         [t \in {"Default"} |-> [trim_names |-> TrimsLXEX, specifications |-> EngineRow]],
         {}, <<>>)

\* Pages served in SpecBatch.
Pages ==
    { BlockedPage, FullPage,
      Page(FALSE, TRUE, TRUE, FALSE, 0, <<>>, <<>>, {}, <<>>),
      Page(FALSE, FALSE, TRUE, FALSE, 0, <<>>, <<>>, {}, <<>>),
      Page(FALSE, FALSE, FALSE, FALSE, 0, <<>>, <<>>, {},
           <<[name |-> "LX", specs |-> <<>>],
             [name |-> "EX", specs |-> <<[label |-> "Engine", values |-> <<"2.0L">>]>>]>>),
      Page(FALSE, FALSE, FALSE, FALSE, 0, <<>>, <<>>, {}, <<>>),
      Page(FALSE, FALSE, TRUE, FALSE, 1, <<>>, [t \in {"Default"} |-> NoData], {}, <<>>),
      Page(FALSE, FALSE, TRUE, TRUE, 1, <<"Sedan", "Coupe", "Wagon">>,
           [t \in {"Sedan", "Coupe", "Wagon"} |->
              IF t = "Coupe" THEN NoData
              ELSE [trim_names |-> TrimsLXEX, specifications |-> EngineRow]],
           {"Coupe", "Wagon"}, <<>>),
      Page(FALSE, FALSE, TRUE, TRUE, 1, <<"Sedan", "Coupe">>,
           [t \in {"Sedan", "Coupe"} |->
              IF t = "Sedan" THEN NoData
              ELSE [trim_names |-> TrimsLXEX, specifications |-> EngineRow]],
           {}, <<>>) }

InitBatch ==
    /\ InitExport
    /\ InitFnIdle
    /\ bpc = "loop"
    /\ bi = 1
    /\ flags \in [with_reviews : BOOLEAN, export_db : BOOLEAN]
    /\ successful = 0
    /\ failed = 0
    /\ failed_models = <<>>
    /\ drivers = <<"open">>                  \* line 299: KBBResearchScraper(headless)
    /\ scraper = 1
    /\ reviews_scraper = IF flags.with_reviews THEN 1 ELSE 0     \* line 300
    /\ tlog = <<>>
    /\ InitParallelIdle

Name(info) == <<info.year, info.make, info.model>>

\* lines 308-311: an item without make, model or year
SkipInvalid ==
    /\ bpc = "loop"
    /\ bi <= Len(Batch)
    /\ ~ValidModelInfo(Batch[bi])
    /\ failed' = failed + 1
    /\ bi' = bi + 1
    /\ tlog' = Append(tlog, [target |-> Batch[bi], nav |-> "skipped", gets |-> 0, empty |-> TRUE,
                             dSuccessful |-> 0, dFailed |-> 1, listed |-> FALSE, wrote |-> FALSE,
                             wrote4table |-> FALSE, died |-> FALSE, threw |-> FALSE, aliveAtStart |-> drivers[scraper] = "open"])
    /\ UNCHANGED <<parVars, fnVars, exportVars, bpc, flags, successful, failed_models, drivers, scraper,
                   reviews_scraper>>

\* Mutant: an item during which the session died is taken again after the rebuild.
NextItemRetry(i, rebuilt) == IF rebuilt THEN i ELSE i + 1

\* line 304: for i, model_info in enumerate(models, 1) -- the loop moves on to
\* the next item whatever happened to this one
next_item(i, rebuilt) == i + 1

\* lines 313-336 up to the liveness probe: one item goes through the try
\* block; after an exception _is_driver_alive decides about the rebuild
ProcessItem(page, fault) ==
    /\ bpc = "loop"
    /\ bi <= Len(Batch)
    /\ ValidModelInfo(Batch[bi])
    /\ LET alive == drivers[scraper] = "open"
           o == TryItem(Batch[bi], page, fault, alive, reviews_scraper # 0, flags.export_db)
           is_driver_alive == o.aliveEnd
       IN /\ csv' = IF o.saved THEN Export(csv, o.data) ELSE csv
          /\ successful' = successful + o.dSuccessful
          /\ failed' = failed + o.dFailed
          /\ failed_models' = IF o.listed THEN Append(failed_models, Name(Batch[bi]))
                              ELSE failed_models
          /\ drivers' = [drivers EXCEPT ![scraper] = IF o.aliveEnd THEN "open" ELSE "dead"]
          /\ bpc' = IF o.threw /\ ~is_driver_alive THEN "recreate" ELSE "loop"
          /\ tlog' = Append(tlog,
                [target |-> Batch[bi], nav |-> o.nav, gets |-> o.gets,
                 empty |-> \A b \in 1..Len(o.data.bodytypes) :
                              /\ o.data.bodytypes[b].trim_names = <<>>
                              /\ o.data.bodytypes[b].specifications = <<>>,
                 dSuccessful |-> o.dSuccessful, dFailed |-> o.dFailed, listed |-> o.listed,
                 wrote |-> csv' # csv, wrote4table |-> o.wrote4table, died |-> alive /\ ~o.aliveEnd, threw |-> o.threw,
                 aliveAtStart |-> alive])
          /\ bi' = next_item(bi, o.threw /\ ~is_driver_alive)
    /\ UNCHANGED <<parVars, fnVars, ex, calls, lastCall, prevData, firstLine, lineBy, flags, scraper,
                   reviews_scraper>>

\* Mutant: the driver is left as it is.
LeaveDriver(ds, s) == ds

\* DriverManager.close: driver.quit()
QuitDriver(ds, s) == [ds EXCEPT ![s] = "closed"]

close_driver(ds, s) == QuitDriver(ds, s)

\* _recreate_scraper, lines 195-198: the old driver is quit
CloseOldScraper ==
    /\ bpc = "recreate"
    /\ drivers' = close_driver(drivers, scraper)
    /\ bpc' = "create"
    /\ UNCHANGED <<parVars, fnVars, exportVars, bi, flags, successful, failed, failed_models, scraper,
                   reviews_scraper, tlog>>

\* _recreate_scraper, lines 199-203: a new driver is created and the reviews
\* scraper is bound to it
RecreateScraper ==
    /\ bpc = "create"
    /\ drivers' = Append(drivers, "open")
    /\ scraper' = Len(drivers) + 1
    /\ reviews_scraper' = IF flags.with_reviews THEN Len(drivers) + 1 ELSE 0
    /\ bpc' = "loop"
    /\ UNCHANGED <<parVars, fnVars, exportVars, bi, flags, successful, failed, failed_models, tlog>>

\* lines 338-339: finally: scraper.close()
CloseScraper ==
    /\ bpc = "loop"
    /\ bi > Len(Batch)
    /\ drivers' = close_driver(drivers, scraper)
    /\ bpc' = "done"
    /\ UNCHANGED <<parVars, fnVars, exportVars, bi, flags, successful, failed, failed_models, scraper,
                   reviews_scraper, tlog>>

NextBatch ==
    \/ SkipInvalid
    \/ \E page \in Pages, fault \in Faults : ProcessItem(page, fault)
    \/ CloseOldScraper
    \/ RecreateScraper
    \/ CloseScraper

SpecBatch == InitBatch /\ [][NextBatch]_vars

----------------------------------------------------------------------------
(* Claims about the batch loop *)

Processed == {i \in 1..Len(tlog) : tlog[i].nav # "skipped"}

\* C5: once the session has died during a target, it is rebuilt before the
\* next target: every target is started on a session that answers, and a
\* target during which the session died is counted as failed (and only as
\* failed).
C5_TargetsStartOnLiveSession ==
    \A i \in Processed :
        /\ tlog[i].aliveAtStart
        /\ tlog[i].died => tlog[i].dFailed = 1 /\ tlog[i].dSuccessful = 0

\* C6: a target whose navigation gave specs or overview on a live session and
\* for which neither trim names nor specifications were extracted is counted
\* as failed and listed, never as successful.
C6_EmptyExtractionCountsFailed ==
    \A i \in Processed :
        (tlog[i].nav \in {"specs", "overview"} /\ tlog[i].empty
            /\ tlog[i].aliveAtStart /\ ~tlog[i].died)
        => tlog[i].dFailed = 1 /\ tlog[i].dSuccessful = 0 /\ tlog[i].listed

\* C7: a target whose navigation gave not_found or blocked is counted as
\* failed and listed, its page is requested exactly once, and neither the CSV
\* file nor the 4-table directory receives anything for it.
C7_NavigationFailureCountedOnce ==
    \A i \in Processed :
        tlog[i].nav \in {"not_found", "blocked"}
        => /\ tlog[i].dFailed = 1 /\ tlog[i].dSuccessful = 0 /\ tlog[i].listed
           /\ tlog[i].gets = 1
           /\ ~tlog[i].wrote /\ ~tlog[i].wrote4table

\* A blocked target on a live session, after a target that was written to
\* the CSV file.
C7_BlockedAfterWrittenTarget ==
    /\ Len(tlog) >= 2
    /\ tlog[1].wrote
    /\ tlog[2].nav = "blocked" /\ tlog[2].aliveAtStart
    /\ failed_models = <<Name(Batch[2])>>
    /\ csv # NoFile

\* C17: the items of the batch are taken one after the other in the order of
\* the batch list: the k-th item taken is the k-th item of the list, the next
\* one is not taken before the previous one is finished, every well-formed
\* target is scraped in exactly one turn of the loop (also after a rebuild of
\* the session), on the one session the loop holds at that moment, and when
\* the loop is over every item has had its turn.
C17_TargetsOnceInListOrder ==
    /\ bi = Len(tlog) + 1
    /\ Len(tlog) <= Len(Batch)
    /\ \A k \in 1..Len(tlog) :
          /\ tlog[k].target = Batch[k]
          /\ tlog[k].nav # "skipped" <=> ValidModelInfo(Batch[k])
    /\ \A t \in {Batch[k] : k \in {j \in 1..Len(Batch) : ValidModelInfo(Batch[j])}} :
          Cardinality({k \in Processed : tlog[k].target = t}) <= 1
    /\ bpc = "done" => Len(tlog) = Len(Batch)
    /\ scraper \in DOMAIN drivers
    /\ reviews_scraper \in {0, scraper}

\* The whole batch was taken, the session died during the first target and
\* was rebuilt, and the second target was scraped on the new session.
C17_BatchDoneAfterRebuild ==
    /\ bpc = "done"
    /\ Len(tlog) = Len(Batch)
    /\ tlog[1].died
    /\ Len(drivers) = 2
    /\ tlog[2].nav \in {"specs", "overview"} /\ tlog[2].aliveAtStart

----------------------------------------------------------------------------
(* The files below data/ *)

Exists(fs, path) == path \in DOMAIN fs

Read(fs, path) == IF path \in DOMAIN fs THEN fs[path] ELSE NoFile

\* open(path, "w") ... write
WriteFile(fs, path, content) ==
    [q \in (DOMAIN fs) \cup {path} |-> IF q = path THEN content ELSE fs[q]]

Under(path, dir) == Len(path) > Len(dir) /\ SubSeq(path, 1, Len(dir)) = dir

\* the files of a directory, at any depth
ListDir(fs, dir) == {q \in DOMAIN fs : Under(q, dir)}

\* shutil.rmtree
Rmtree(fs, dir) == [q \in {r \in DOMAIN fs : ~Under(r, dir)} |-> fs[q]]

\* the files whose content differs between fs and fs2
Changed(fs, fs2) == {q \in DOMAIN fs2 : q \notin DOMAIN fs \/ fs[q] # fs2[q]}

\* datetime.now().strftime("%Y%m%d_%H%M%S"): one string per second
Strftime(t) == ToString(t)

----------------------------------------------------------------------------
(* What one worker writes for one target *)

\* main.py lines 228-241: the directories derived from --output-dir
OutputDirs(output_path) ==
    [RAW_DATA_DIR |-> output_path \o <<"raw">>,
     PROCESSED_DATA_DIR |-> output_path \o <<"processed">>,
     CSV_DATA_DIR |-> output_path \o <<"csv">>,
     db_output_dir |-> output_path \o <<"processed", "4table">>]

\* KBBResearchScraper.save_results
SaveResults(fs, dirs, data) ==
    LET csv_path == dirs.CSV_DATA_DIR \o <<"all_cars.csv">>
        file == Export(Read(fs, csv_path), data)
    IN IF file = NoFile THEN fs ELSE WriteFile(fs, csv_path, file)

\* The prefixes of the debug pages _save_debug_html writes during
\* scrape_car_model: blocked_ in navigate_to_car_model, failed_ for every
\* tab scrape_current_body_type_data finds empty.
DebugSaved(page, nav, alive) ==
    IF ~alive THEN {}
    ELSE IF nav = "blocked" THEN {"blocked_"}
    ELSE IF nav = "specs"
    THEN LET body_types == GetAllBodyTypes(page, alive)
             scraped == {body_types[1]} \cup
                        {body_types[i] : i \in {j \in 2..Len(body_types) :
                                                   SelectBodyType(page, body_types[j], alive)}}
         IN IF \E tab \in scraped :
                  LET data == ScrapeCurrentBodyTypeData(page, tab, alive)
                  IN data.trim_names = <<>> /\ data.specifications = <<>>
            THEN {"failed_"} ELSE {}
    ELSE {}

\* every path of files written with its content
WriteAll(fs, files) ==
    [q \in (DOMAIN fs) \cup (DOMAIN files) |-> IF q \in DOMAIN files THEN files[q] ELSE fs[q]]

\* KBBResearchScraper._save_debug_html
SaveDebugHtml(fs, dirs, prefixes, t) ==
    WriteAll(fs, [q \in {dirs.RAW_DATA_DIR \o <<"debug", pre \o Strftime(t) \o ".html">> :
                             pre \in prefixes} |-> "html"])

\* The files of one DatabaseExporter.export call
TableFiles == {"vehicle", "vehicle_specs", "vehicle_features", "vehicle_scores",
               "combined_4table", "metadata"}

\* DatabaseExporter.export, reached through export_to_4table_format
DatabaseExport(fs, output_dir, target, t) ==
    LET filename(table) == Strftime(t) \o "_" \o table \o ".json"
        content(q) == [table |-> CHOOSE table \in TableFiles : q = output_dir \o <<filename(table)>>,
                       make |-> target.make, model |-> target.model, year |-> target.year]
    IN WriteAll(fs, [q \in {output_dir \o <<filename(table)>> : table \in TableFiles} |->
                        content(q)])

REVIEW_CSV_COLUMNS == <<"make", "model", "year", "consumer_overall_rating">>

\* KBBReviewsScraper._save_json
SaveJson(fs, dirs, target, t) ==
    LET filepath == dirs.RAW_DATA_DIR \o <<target.make \o "_" \o target.model \o "_reviews.json">>
        combined == IF Exists(fs, filepath) THEN fs[filepath]
                    ELSE [make |-> target.make, model |-> target.model,
                          years |-> [y \in {} |-> ""], last_updated |-> 0]
    IN WriteFile(fs, filepath,
                 [combined EXCEPT !.years = Put(combined.years, target.year, "review"),
                                  !.last_updated = t])

\* KBBReviewsScraper._save_csv
SaveCsv(fs, dirs, target) ==
    LET csv_path == dirs.CSV_DATA_DIR \o <<"all_reviews.csv">>
        file == Read(fs, csv_path)
        row == <<target.make, target.model, target.year, "4.5">>
    IN WriteFile(fs, csv_path,
                 file \o (IF Exists(fs, csv_path) THEN <<>> ELSE <<REVIEW_CSV_COLUMNS>>)
                      \o <<row>>)

\* Everything a worker started with --output-dir output_path writes while
\* it processes target (main.py lines 313-325); o is what TryItem computed.
ItemWrites(fs, output_path, target, page, o, t) ==
    LET dirs == OutputDirs(output_path)
        fs1 == SaveDebugHtml(fs, dirs, DebugSaved(page, o.nav, TRUE), t)
        fs2 == IF o.saved THEN SaveResults(fs1, dirs, o.data) ELSE fs1
        fs3 == IF o.wrote4table THEN DatabaseExport(fs2, dirs.db_output_dir, target, t) ELSE fs2
        fs4 == IF o.savedReviews THEN SaveCsv(SaveJson(fs3, dirs, target, t), dirs, target)
               ELSE fs3
    IN fs4

----------------------------------------------------------------------------
(* run_parallel.py *)

WORKERS_DIR == <<"data", "workers">>
FINAL_CSV == <<"data", "csv", "all_cars.csv">>
FINAL_REVIEWS_CSV == <<"data", "csv", "all_reviews.csv">>
FINAL_RAW == <<"data", "raw">>
FINAL_4TABLE == <<"data", "processed", "4table">>

\* get_scrape_combinations: one target per requested worker
Combinations == [i \in 1..NumWorkers |-> [make |-> "Audi", model |-> "A3", year |-> YearOf(i)]]

Ceil(a, b) == (a + b - 1) \div b

\* split_combinations
SplitCombinations(combinations, num_workers) ==
    LET chunk_size == Ceil(Len(combinations), num_workers)
    IN [k \in 1..Ceil(Len(combinations), chunk_size) |->
          SubSeq(combinations, (k - 1) * chunk_size + 1,
                 IF k * chunk_size < Len(combinations) THEN k * chunk_size
                 ELSE Len(combinations))]

\* the batch files main hands to launch_workers
Chunks == SplitCombinations(Combinations, NumWorkers)

\* launch_workers line 92: worker_dir = WORKERS_DIR / f"worker_{i}"
WorkerDir(i) == WORKERS_DIR \o <<"worker_" \o ToString(i)>>

\* Mutant: every worker is given the directory of the first one.
WorkerDirShared(i) == WORKERS_DIR \o <<"worker_1">>

worker_dir(i) == WorkerDir(i)

\* proc.wait() returns
ProcWait(p) == p.st = "exited"

\* Mutant: the wait loop does not wait.
ProcWaitNoWait(p) == TRUE

proc_wait(p) == ProcWait(p)

\* sorted(WORKERS_DIR.glob("worker_*/" + rel)): the directories launch_workers
\* can have created, in the order of their names, that hold the file
WorkerGlob(fs, rel) ==
    LET all == [i \in 1..Len(Chunks) |-> WORKERS_DIR \o <<"worker_" \o ToString(i)>> \o rel]
        present(q) == Exists(fs, q)
    IN SelectSeq(all, present)

\* Mutant: the worker files are taken in the order in which the workers exited.
WorkerGlobByFinish(fs, rel) ==
    LET all == [k \in 1..Len(mlog.finish_order) |->
                  WORKERS_DIR \o <<"worker_" \o ToString(mlog.finish_order[k])>> \o rel]
        present(q) == Exists(fs, q)
    IN SelectSeq(all, present)

worker_glob(fs, rel) == WorkerGlob(fs, rel)

\* lines 145-153: the columns of the files, each once, in order of appearance
RECURSIVE HeaderUnion(_, _)
HeaderUnion(all_headers, cols) ==
    IF cols = <<>> THEN all_headers
    ELSE HeaderUnion(IF Head(cols) \in Range(all_headers) THEN all_headers
                     ELSE Append(all_headers, Head(cols)), Tail(cols))

\* Mutant: the destination is opened for appending.
AppendMerged(fs, dest, content) == WriteFile(fs, dest, Read(fs, dest) \o content)

\* line 155: open(dest, "w") and the writes that follow
write_merged(fs, dest, content) == WriteFile(fs, dest, content)

\* Mutant: every column of every file is taken, also one already seen.
HeaderUnionNoCheck(all_headers, cols) == all_headers \o cols

header_union(all_headers, cols) == HeaderUnion(all_headers, cols)

\* _merge_one_csv
MergeOneCsv(fs, rel, dest) ==
    LET worker_csvs == worker_glob(fs, rel)
        all_headers == header_union(<<>>, ConcatAll([i \in 1..Len(worker_csvs) |->
                                                      fs[worker_csvs[i]][1]]))
        all_rows == ConcatAll([i \in 1..Len(worker_csvs) |-> DictReader(fs[worker_csvs[i]])])
    IN IF worker_csvs = <<>> THEN fs
       ELSE write_merged(fs, dest, <<all_headers>>
                                    \o [i \in 1..Len(all_rows) |-> WriteRow(all_headers, all_rows[i])])

\* merge_csv_files
MergeCsvFiles(fs) ==
    MergeOneCsv(MergeOneCsv(fs, <<"csv", "all_cars.csv">>, FINAL_CSV),
                <<"csv", "all_reviews.csv">>, FINAL_REVIEWS_CSV)

\* the names of the files directly in dir
Names(fs, dir) == {q[Len(q)] : q \in {r \in ListDir(fs, dir) : Len(r) = Len(dir) + 1}}

\* shutil.copy2 / copytree of the files directly in src into dest
CopyFiles(fs, src, dest) ==
    WriteAll(fs, [q \in {dest \o <<n>> : n \in Names(fs, src)} |-> fs[src \o <<q[Len(q)]>>]])

\* lines 181-186: the debug directory of the first worker that has one is
\* copied, unless data/raw/debug exists already
RECURSIVE CopyDebugDirs(_, _)
CopyDebugDirs(fs, i) ==
    IF i > Len(Chunks) THEN fs
    ELSE LET f == WORKERS_DIR \o <<"worker_" \o ToString(i), "raw", "debug">>
             dest == FINAL_RAW \o <<"debug">>
         IN CopyDebugDirs(IF ListDir(fs, f) # {} /\ ListDir(fs, dest) = {}
                          THEN CopyFiles(fs, f, dest) ELSE fs, i + 1)

\* lines 195-204: the review files of one name, merged by year
RECURSIVE CombineReviews(_, _, _)
CombineReviews(fs, paths, combined) ==
    IF paths = <<>> THEN combined
    ELSE LET data == fs[Head(paths)]
         IN CombineReviews(fs, Tail(paths),
                IF combined = <<>> THEN <<data>>
                ELSE <<[combined[1] EXCEPT !.years =
                          [y \in (DOMAIN combined[1].years) \cup (DOMAIN data.years) |->
                              IF y \in DOMAIN data.years THEN data.years[y]
                              ELSE combined[1].years[y]]]>>)

\* Mutant: the document of the first worker is taken as it is.
CombineFirstOnly(fs, paths, combined) == <<fs[Head(paths)]>>

combine_reviews(fs, paths, combined) == CombineReviews(fs, paths, combined)

\* merge_raw_json_files
MergeRawJsonFiles(fs) ==
    LET fs1 == CopyDebugDirs(fs, 1)
        raw(i) == WORKERS_DIR \o <<"worker_" \o ToString(i), "raw">>
        filenames == UNION {Names(fs, raw(i)) : i \in 1..Len(Chunks)}
        content(q) == combine_reviews(fs, worker_glob(fs, <<"raw", q[Len(q)]>>), <<>>)[1]
    IN WriteAll(fs1, [q \in {FINAL_RAW \o <<n>> : n \in filenames} |-> content(q)])

\* merge_4table_files: the files are copied in the order of their paths,
\* a later copy replaces an earlier one of the same name
RECURSIVE Copy4Tables(_, _)
Copy4Tables(fs, i) ==
    IF i > Len(Chunks) THEN fs
    ELSE Copy4Tables(CopyFiles(fs, WORKERS_DIR \o <<"worker_" \o ToString(i), "processed", "4table">>,
                               FINAL_4TABLE), i + 1)

MergeFourTableFiles(fs) == Copy4Tables(fs, 1)

\* merge_all
MergeAll(fs) == MergeFourTableFiles(MergeRawJsonFiles(MergeCsvFiles(fs)))

\* the CSV and JSON files merge_all writes, given the worker files of fs
MergedPaths(fs) ==
    LET dir(i, sub) == WORKERS_DIR \o <<"worker_" \o ToString(i)>> \o sub
    IN (IF WorkerGlob(fs, <<"csv", "all_cars.csv">>) # <<>> THEN {FINAL_CSV} ELSE {})
       \cup (IF WorkerGlob(fs, <<"csv", "all_reviews.csv">>) # <<>> THEN {FINAL_REVIEWS_CSV} ELSE {})
       \cup UNION {{FINAL_RAW \o <<n>> : n \in Names(fs, dir(i, <<"raw">>))} : i \in 1..Len(Chunks)}
       \cup UNION {{FINAL_4TABLE \o <<n>> : n \in Names(fs, dir(i, <<"processed", "4table">>))} :
                     i \in 1..Len(Chunks)}

Alive == {w \in 1..NumWorkers : proc[w].st \in {"running", "done"}}

\* main up to the first statement of launch_workers / merge_all.  With --run:
\* the batch files are written and the old worker directories removed.
StartRun ==
    /\ opc = "start"
    /\ plan # <<>>
    /\ mode' = Head(plan)
    /\ plan' = Tail(plan)
    /\ opc' = IF Head(plan) = "run" THEN "launching" ELSE "merge"
    /\ disk' = IF Head(plan) = "run" THEN Rmtree(disk, WORKERS_DIR) ELSE disk
    /\ procs' = 0
    /\ wi' = 1
    /\ pfailed' = 0
    /\ proc' = [w \in 1..NumWorkers |-> NoProc]
    /\ exit_status' = -1
    /\ written' = {}
    /\ plog' = [alive_at_merge |-> {}, merged |-> FALSE]
    /\ mlog' = [mlog EXCEPT !.finish_order = <<>>]
    /\ UNCHANGED <<exportVars, batchVars, fnVars, now>>

\* launch_workers lines 91-112: Popen of the next worker (the stagger sleep
\* that follows lets the clock advance, see Tick)
LaunchWorker ==
    /\ opc = "launching"
    /\ procs < Len(Chunks)
    /\ procs' = procs + 1
    /\ proc' = [proc EXCEPT ![procs + 1] = [st |-> "running", last |-> now, pos |-> 1,
                                             successful |-> 0, returncode |-> 0]]
    /\ opc' = IF procs + 1 = Len(Chunks) THEN "waiting" ELSE "launching"
    /\ UNCHANGED <<exportVars, batchVars, fnVars, plan, mode, wi, pfailed, disk, now, exit_status,
                   written, plog, mlog>>

\* worker w: one iteration of the batch-file loop of kbb_scraper.main, in a
\* later second than the previous one (navigate_to_car_model sleeps)
WorkerScrape(w, page) ==
    /\ proc[w].st = "running"
    /\ proc[w].pos <= Len(Chunks[w])
    /\ now > proc[w].last
    /\ LET target == Chunks[w][proc[w].pos]
           o == TryItem(target, page, "none", TRUE, flags.with_reviews, flags.export_db)
       IN /\ disk' = ItemWrites(disk, worker_dir(w), target, page, o, now)
          /\ proc' = [proc EXCEPT ![w].pos = @ + 1, ![w].last = now,
                                  ![w].successful = @ + o.dSuccessful]
    /\ written' = written \cup {[path |-> q, by |-> w] : q \in Changed(disk, disk')}
    /\ UNCHANGED <<exportVars, batchVars, fnVars, opc, plan, mode, procs, wi, pfailed, now,
                   exit_status, plog, mlog>>

\* worker w: main returns successful > 0 and the process exits
WorkerExit(w) ==
    /\ proc[w].st = "running"
    /\ proc[w].pos > Len(Chunks[w])
    /\ proc' = [proc EXCEPT ![w].st = "exited",
                            ![w].returncode = IF proc[w].successful > 0 THEN 0 ELSE 1]
    /\ mlog' = [mlog EXCEPT !.finish_order = Append(@, w)]
    /\ UNCHANGED <<exportVars, batchVars, fnVars, opc, plan, mode, procs, wi, pfailed, disk, now,
                   exit_status, written, plog>>

\* launch_workers lines 116-123: one iteration of the wait loop
WaitWorker ==
    /\ opc = "waiting"
    /\ wi <= procs
    /\ proc_wait(proc[wi])
    /\ pfailed' = pfailed + (IF proc[wi].returncode # 0 THEN 1 ELSE 0)
    /\ wi' = wi + 1
    /\ opc' = IF wi = procs THEN "merge" ELSE "waiting"
    /\ UNCHANGED <<exportVars, batchVars, fnVars, plan, mode, procs, proc, disk, now, exit_status,
                   written, plog, mlog>>

\* main line 318 (274 with --merge-only): merge_all()
DoMergeAll ==
    /\ opc = "merge"
    /\ disk' = MergeAll(disk)
    /\ written' = written \cup {[path |-> q, by |-> 0] : q \in Changed(disk, disk')}
    /\ plog' = [alive_at_merge |-> Alive, merged |-> TRUE]
    /\ mlog' = [mlog EXCEPT !.merges =
                   Append(@, [workers |-> [q \in ListDir(disk, WORKERS_DIR) |-> disk[q]],
                              order |-> mlog.finish_order,
                              before |-> [q \in MergedPaths(disk) \cap DOMAIN disk |-> disk[q]],
                              out |-> [q \in MergedPaths(disk) |-> Read(disk', q)]])]
    /\ opc' = "exit"
    /\ UNCHANGED <<exportVars, batchVars, fnVars, plan, mode, procs, wi, pfailed, proc, now,
                   exit_status>>

\* main lines 320-321: sys.exit(1) if a worker failed, else the normal end
Exit ==
    /\ opc = "exit"
    /\ exit_status' = IF mode = "run" /\ pfailed > 0 THEN 1 ELSE 0
    /\ opc' = "start"
    /\ UNCHANGED <<exportVars, batchVars, fnVars, plan, mode, procs, wi, pfailed, proc, disk, now,
                   written, plog, mlog>>

\* a second passes while a worker runs
Tick ==
    /\ now < MaxClock
    /\ \E w \in 1..NumWorkers : proc[w].st = "running"
    /\ now' = now + 1
    /\ UNCHANGED <<exportVars, batchVars, fnVars, opc, plan, mode, procs, wi, pfailed, proc, disk,
                   exit_status, written, plog, mlog>>

\* the pages the workers are served
WorkerPages == {BlockedPage, FullPage}

NextParallel ==
    \/ StartRun
    \/ LaunchWorker
    \/ \E w \in 1..NumWorkers, page \in WorkerPages : WorkerScrape(w, page)
    \/ \E w \in 1..NumWorkers : WorkerExit(w)
    \/ WaitWorker
    \/ DoMergeAll
    \/ Exit
    \/ Tick

\* run_parallel is about to be invoked as planned, with the flags given
InitPlannedOn(plans, disks) ==
    /\ InitExport
    /\ InitFnIdle
    /\ bpc = "done"
    /\ bi = 1
    /\ flags \in [with_reviews : BOOLEAN, export_db : BOOLEAN]
    /\ successful = 0
    /\ failed = 0
    /\ failed_models = <<>>
    /\ drivers = <<>>
    /\ scraper = 0
    /\ reviews_scraper = 0
    /\ tlog = <<>>
    /\ opc = "start"
    /\ plan \in plans
    /\ mode = "none"
    /\ procs = 0
    /\ wi = 1
    /\ pfailed = 0
    /\ proc = [w \in 1..NumWorkers |-> NoProc]
    /\ disk \in disks
    /\ now = 0
    /\ exit_status = -1
    /\ written = {}
    /\ plog = [alive_at_merge |-> {}, merged |-> FALSE]
    /\ mlog = [finish_order |-> <<>>, merges |-> <<>>]

InitPlanned(plans) == InitPlannedOn(plans, {NoFiles})

\* one parallel run, possibly followed by --merge-only
InitParallel == InitPlanned({<<"run">>, <<"run", "merge_only">>})

SpecParallel == InitParallel /\ [][NextParallel]_vars

\* up to MaxRuns invocations, each --run or --merge-only
InitRuns == InitPlanned(UNION {[1..n -> {"run", "merge_only"}] : n \in 1..MaxRuns})

SpecRuns == InitRuns /\ [][NextParallel]_vars

\* the same parallel run twice, without --with-reviews and --export-db
InitRepeat ==
    /\ InitPlanned({<<"run", "run">>})
    /\ flags = [with_reviews |-> FALSE, export_db |-> FALSE]

SpecRepeat == InitRepeat /\ [][NextParallel]_vars

\* CSV files a worker directory may hold when merge_all starts: written by
\* CsvExporter, or by other versions of it with other columns
WorkerCsvs ==
    { NoFile,
      << FIXED_COLUMNS, <<"Audi", "A3", "2017", "Sedan", "LX", "1.4L", "", "">> >>,
      << <<"make", "year", "Engine">>, <<"Audi", "2017", "2.0L">>, <<"Audi", "2018", "2.5L">> >>,
      << <<"make", "year", "trim">>, <<"BMW", "2019", "LX">>, <<"BMW", "2019">> >>,
      << <<"Horsepower">>, <<"201">> >>,
      << <<"make", "model">> >> }

\* the disks holding such worker files and possibly a merged file of before
MergeInputDisks ==
    {[q \in {WorkerDir(i) \o <<"csv", "all_cars.csv">> : i \in {j \in 1..NumWorkers : f[j] # NoFile}}
            \cup (IF old = NoFile THEN {} ELSE {FINAL_CSV})
         |-> IF q = FINAL_CSV THEN old
             ELSE f[CHOOSE i \in 1..NumWorkers : q = WorkerDir(i) \o <<"csv", "all_cars.csv">>]] :
       f \in [1..NumWorkers -> WorkerCsvs],
       old \in {NoFile, << <<"make", "year">>, <<"Fiat", "2001">> >>}}

\* the worker directories hold CSV files of earlier runs, data/csv may hold
\* a merged file, and run_parallel --merge-only is about to be invoked
InitMergeOnly ==
    /\ InitPlannedOn({<<"merge_only">>, <<"merge_only", "merge_only">>}, MergeInputDisks)
    /\ flags = [with_reviews |-> FALSE, export_db |-> FALSE]

\* a review document as _save_json writes it
ReviewDoc(make, years) == [make |-> make, model |-> "A3", years |-> years, last_updated |-> 1]

\* review files a worker directory may hold when merge_all starts
WorkerReviewFiles ==
    { [name |-> "", doc |-> <<>>],
      [name |-> "Audi_A3_reviews.json",
       doc |-> ReviewDoc("Audi", [y \in {"2017", "2018"} |-> IF y = "2017" THEN "a" ELSE "b"])],
      [name |-> "Audi_A3_reviews.json",
       doc |-> ReviewDoc("Audi", [y \in {"2018", "2019"} |-> IF y = "2018" THEN "c" ELSE "d"])],
      [name |-> "Audi_A3_reviews.json", doc |-> ReviewDoc("Audi", [y \in {"2020"} |-> "e"])],
      [name |-> "Audi_A3_reviews.json", doc |-> ReviewDoc("Audi", [y \in {} |-> ""])],
      [name |-> "BMW_A3_reviews.json", doc |-> ReviewDoc("BMW", [y \in {"2018"} |-> "f"])] }

\* the disks holding such review files in the raw directories of the workers
ReviewInputDisks ==
    {[q \in {WorkerDir(i) \o <<"raw", f[i].name>> : i \in {j \in 1..NumWorkers : f[j].name # ""}}
         |-> f[CHOOSE i \in 1..NumWorkers : q = WorkerDir(i) \o <<"raw", f[i].name>>].doc] :
       f \in [1..NumWorkers -> WorkerReviewFiles]}

\* the worker directories hold review files of earlier runs and
\* run_parallel --merge-only is about to be invoked
InitMergeReviews ==
    /\ InitPlannedOn({<<"merge_only">>, <<"merge_only", "merge_only">>}, ReviewInputDisks)
    /\ flags = [with_reviews |-> TRUE, export_db |-> FALSE]

\* main with --merge-only (lines 271-274)
NextMergeOnly ==
    \/ StartRun
    \/ DoMergeAll
    \/ Exit

SpecMergeOnly == InitMergeOnly /\ [][NextMergeOnly]_vars

SpecMergeReviews == InitMergeReviews /\ [][NextMergeOnly]_vars


----------------------------------------------------------------------------
(* Claims about the parallel run *)

\* C4: every file written while the workers run has one writer, and what
\* worker i writes (CSV, raw and 4-table files) lies below its own directory
\* data/workers/worker_i.
C4_OneWriterPerOutputFile ==
    /\ \A a, b \in written : a.path = b.path => a.by = b.by
    /\ \A a \in written : a.by # 0 => Under(a.path, WorkerDir(a.by))

\* Two workers, both still running, have written files of the same name.
C4_TwoWorkersWroteSameNames ==
    /\ Alive = {1, 2}
    /\ \E a, b \in written :
          /\ a.by = 1 /\ b.by = 2
          /\ a.path[Len(a.path)] = b.path[Len(b.path)]
          /\ Under(a.path, WorkerDir(1) \o <<"processed", "4table">>)

\* C8: no step removes a natural key from data/csv/all_cars.csv: the key
\* set of the final CSV file before a step is contained in the one after it.
C8_KeySetOnlyGrows ==
    [][LoadExistingKeys(Read(disk, FINAL_CSV)) \subseteq LoadExistingKeys(Read(disk', FINAL_CSV))]_vars

\* C9: the 4-table files of different workers have different names, and once
\* merge_all has run every 4-table file of every worker is in
\* data/processed/4table under its name with its content.
C9_NoArtifactOverwritten ==
    LET dir(i) == WorkerDir(i) \o <<"processed", "4table">>
    IN /\ \A i, j \in 1..NumWorkers :
             i # j => Names(disk, dir(i)) \cap Names(disk, dir(j)) = {}
       /\ plog.merged =>
             \A i \in 1..NumWorkers : \A n \in Names(disk, dir(i)) :
                 /\ Exists(disk, FINAL_4TABLE \o <<n>>)
                 /\ disk[FINAL_4TABLE \o <<n>>] = disk[dir(i) \o <<n>>]

\* C10: merge_all starts when no launched worker is alive; an invocation
\* with --run that has ended has launched every worker, has run merge_all,
\* and its exit status is 1 exactly if some worker returned non-zero.
C10_MergeAfterAllWorkersExit ==
    /\ plog.alive_at_merge = {}
    /\ (mode = "run" /\ plog.merged) => \A w \in 1..procs : proc[w].st = "exited"
    /\ (mode = "run" /\ exit_status # -1) =>
          /\ procs = Len(Chunks)
          /\ plog.merged
          /\ exit_status = IF \E w \in 1..procs : proc[w].returncode # 0 THEN 1 ELSE 0

\* A run has ended with status 1 after one worker failed and one succeeded,
\* and the successful worker's rows are in the final CSV file.
C10_MergedAfterFailedWorker ==
    /\ mode = "run"
    /\ exit_status = 1
    /\ plog.merged
    /\ \E v, w \in 1..procs : proc[v].returncode = 1 /\ proc[w].returncode = 0
    /\ Exists(disk, FINAL_CSV)

----------------------------------------------------------------------------
(* Claims about the merge *)

WorkerCars == [k \in 1..Len(WorkerGlob(disk, <<"csv", "all_cars.csv">>)) |->
                 disk[WorkerGlob(disk, <<"csv", "all_cars.csv">>)[k]]]

RECURSIVE RowsOf(_, _)
RowsOf(files, k) == IF k = 0 THEN 0 ELSE (Len(files[k]) - 1) + RowsOf(files, k - 1)

\* C12: after a merge over at least one worker file the header of the merged
\* CSV holds every column of every worker header exactly once, the file has
\* one row per row of every worker file, in order, and each row carries the
\* cells of its worker row under its worker's columns and is blank in every
\* other column.
C12_HeaderUnionAllRowsBlanks ==
    (plog.merged /\ WorkerCars # <<>>) =>
        LET merged == disk[FINAL_CSV]
            header == merged[1]
        IN /\ Range(header) = UNION {Range(WorkerCars[k][1]) : k \in 1..Len(WorkerCars)}
           /\ \A a, b \in 1..Len(header) : header[a] = header[b] => a = b
           /\ Len(merged) - 1 = RowsOf(WorkerCars, Len(WorkerCars))
           /\ \A k \in 1..Len(WorkerCars) : \A r \in 2..Len(WorkerCars[k]) :
                 LET file == WorkerCars[k]
                     row == merged[RowsOf(WorkerCars, k - 1) + r]
                 IN \A c \in 1..Len(header) :
                       row[c] = IF header[c] \in Range(file[1])
                                   /\ IndexOf(file[1], header[c]) <= Len(file[r])
                                THEN file[r][IndexOf(file[1], header[c])]
                                ELSE ""

\* Two worker files with no column in common have been merged.
C12_MergedDisjointColumns ==
    /\ plog.merged
    /\ Len(WorkerCars) = 2
    /\ Range(WorkerCars[1][1]) \cap Range(WorkerCars[2][1]) = {}
    /\ Len(WorkerCars[1]) > 1 /\ Len(WorkerCars[2]) > 1
    /\ Len(disk[FINAL_CSV]) = 4

\* C13: a merge that follows a merge over the same worker files leaves the
\* merged files as they were: the final CSV after the second merge is the
\* file the first merge wrote, no row has been added to it.
C13_RemergeChangesNothing ==
    \A j \in 2..Len(mlog.merges) :
        mlog.merges[j].workers = mlog.merges[j - 1].workers
        => /\ mlog.merges[j].before = mlog.merges[j - 1].out
           /\ mlog.merges[j].out = mlog.merges[j].before

\* --merge-only has run twice over worker files with rows.
C13_MergedTwice ==
    /\ Len(mlog.merges) = 2
    /\ mlog.merges[2].workers = mlog.merges[1].workers
    /\ mlog.merges[2].order = <<>>
    /\ FINAL_CSV \in DOMAIN mlog.merges[2].out
    /\ Len(mlog.merges[2].out[FINAL_CSV]) >= 3

\* the review documents named n in the raw directories of the workers
WorkerDocs(n) == {disk[q] : q \in {r \in DOMAIN disk : \E i \in 1..NumWorkers :
                                                       r = WorkerDir(i) \o <<"raw", n>>}}

\* C14: after a merge, for every review file name some worker holds, the
\* merged document has exactly the years of the workers' documents of that
\* name, and the entry of each year is that year's entry in one of them.
C14_EveryYearKept ==
    plog.merged =>
        \A i \in 1..NumWorkers : \A n \in Names(disk, WorkerDir(i) \o <<"raw">>) :
            /\ Exists(disk, FINAL_RAW \o <<n>>)
            /\ LET merged == disk[FINAL_RAW \o <<n>>]
               IN /\ DOMAIN merged.years = UNION {DOMAIN d.years : d \in WorkerDocs(n)}
                  /\ \A y \in DOMAIN merged.years :
                        \E d \in WorkerDocs(n) : y \in DOMAIN d.years /\ merged.years[y] = d.years[y]

\* Two workers hold documents of one name with a year in common and a year
\* each of its own, and the merge has run.
C14_MergedOverlappingYears ==
    /\ plog.merged
    /\ \E d, e \in WorkerDocs("Audi_A3_reviews.json") :
          /\ (DOMAIN d.years) \cap (DOMAIN e.years) # {}
          /\ (DOMAIN d.years) \ (DOMAIN e.years) # {}
          /\ (DOMAIN e.years) \ (DOMAIN d.years) # {}
    /\ Cardinality(DOMAIN disk[FINAL_RAW \o <<"Audi_A3_reviews.json">>].years) = 3

----------------------------------------------------------------------------
(* split_combinations called on its own, with any target list and any      *)
(* positive worker count                                                   *)

MaxTargets == 4         \* longest target list handed to split_combinations
MaxSplit == 4           \* largest worker count handed to split_combinations

\* get_scrape_combinations yields every (make, model, year) once
TargetLists ==
    {c \in UNION {[1..n -> {[make |-> "Audi", model |-> "A3", year |-> ToString(2016 + i)] : i \in 1..MaxTargets}]
                     : n \in 1..MaxTargets} :
        \A i, j \in DOMAIN c : c[i] = c[j] => i = j}

\* Mutant: the short batch at the end of the list is left out.
SplitFullChunksOnly(combinations, num_workers) ==
    LET chunk_size == Ceil(Len(combinations), num_workers)
    IN [k \in 1..(Len(combinations) \div chunk_size) |->
          SubSeq(combinations, (k - 1) * chunk_size + 1, k * chunk_size)]

split_combinations(combinations, num_workers) == SplitCombinations(combinations, num_workers)

\* main lines 290-291: chunks = split_combinations(combinations, args.workers)
CallSplit(combinations, num_workers) ==
    /\ fcall' = [fn |-> "split_combinations", combinations |-> combinations,
                 num_workers |-> num_workers]
    /\ fret' = split_combinations(combinations, num_workers)
    /\ UNCHANGED <<exportVars, batchVars, parVars>>

NextSplit == \E c \in TargetLists, n \in 1..MaxSplit : CallSplit(c, n)

SpecSplit == InitExportOnly /\ [][NextSplit]_vars

C16_ExactlyNBatches ==
    (/\ fcall.fn = "split_combinations"
     /\ Len(fcall.combinations) >= fcall.num_workers
     /\ fcall.num_workers >= 1)
        => /\ Len(fret) = fcall.num_workers
           /\ \A k \in DOMAIN fret : fret[k] # <<>>

----------------------------------------------------------------------------
(* select_body_type called on its own: the click and the poll loop that     *)
(* waits for the content to change.  Times are in milliseconds.             *)

max_wait == 10000           \* line 331: max_wait = 10
wait_interval == 500        \* line 332: wait_interval = 0.5

\* _get_current_content_signature: the text of a heading or of the first
\* table cell, "" when there is none or the lookup raised
Signatures == {"", "A3 Sedan", "A3 Wagon"}

\* what the search of lines 301-324 ends with: no element could be clicked,
\* an element was already selected, or an element was clicked
Found == {"none", "selected", "clicked"}

\* Mutant: any difference counts, also when the content has gone.
SignatureDiffers(new_signature, old_signature) == new_signature # old_signature

\* line 342: if new_signature and new_signature != old_signature
content_changed(new_signature, old_signature) == new_signature # "" /\ new_signature # old_signature

Polling == fcall.fn = "select_body_type" /\ fret.pc = "polling"

\* lines 284-328: the signature before the click, then the search and the click
ClickBodyType(old_signature, found) ==
    /\ IF fcall.fn = "select_body_type" THEN fret.pc = "returned" ELSE TRUE
    /\ fcall' = [fn |-> "select_body_type", old_signature |-> old_signature, found |-> found]
    /\ fret' = [pc |-> IF found = "clicked" THEN "polling" ELSE "returned",
                value |-> found = "selected",
                waited |-> 0, polls |-> 0, differedAt |-> 0, contentAt |-> 0]
    /\ UNCHANGED <<exportVars, batchVars, parVars>>

\* lines 335-347: one turn of the while loop
PollSignature(new_signature) ==
    /\ Polling
    /\ fret.waited < max_wait
    /\ LET n == fret.polls + 1
       IN fret' = [pc |-> IF content_changed(new_signature, fcall.old_signature)
                          THEN "returned" ELSE "polling",
                   value |-> content_changed(new_signature, fcall.old_signature),
                   waited |-> fret.waited + wait_interval,
                   polls |-> n,
                   differedAt |-> IF fret.differedAt = 0 /\ new_signature # fcall.old_signature
                                  THEN n ELSE fret.differedAt,
                   contentAt |-> IF fret.contentAt = 0 /\ new_signature # ""
                                    /\ new_signature # fcall.old_signature
                                 THEN n ELSE fret.contentAt]
    /\ UNCHANGED <<fcall, exportVars, batchVars, parVars>>

\* lines 349-351: the wait is over, return True anyway
GiveUpWaiting ==
    /\ Polling
    /\ ~(fret.waited < max_wait)
    /\ fret' = [fret EXCEPT !.pc = "returned", !.value = TRUE]
    /\ UNCHANGED <<fcall, exportVars, batchVars, parVars>>

NextSelect ==
    \/ \E old \in Signatures, found \in Found : ClickBodyType(old, found)
    \/ \E new \in Signatures : PollSignature(new)
    \/ GiveUpWaiting

SpecSelect == InitExportOnly /\ [][NextSelect]_vars

\* C18 as stated: after the click the loop polls at most max_wait /
\* wait_interval = 20 times, returns True at the first poll whose signature
\* differs from the one before the click, and returns True after the last
\* poll when no signature differed.
C18_SuccessAtFirstDifference ==
    (fcall.fn = "select_body_type" /\ fcall.found = "clicked") =>
        /\ fret.polls * wait_interval <= max_wait
        /\ fret.pc = "polling" => fret.differedAt = 0
        /\ fret.pc = "returned" =>
              /\ fret.value
              /\ fret.polls = IF fret.differedAt # 0 THEN fret.differedAt
                              ELSE max_wait \div wait_interval

\* C18, amended: after the click the loop polls at most 20 times, returns
\* True at the first poll whose signature is not empty and differs from the
\* one before the click, and returns True after the twentieth poll when no
\* poll gave such a signature; a poll that finds no content is not a change.
C18_SuccessAtFirstNewContent ==
    (fcall.fn = "select_body_type" /\ fcall.found = "clicked") =>
        /\ fret.polls * wait_interval <= max_wait
        /\ fret.waited = fret.polls * wait_interval
        /\ fret.pc = "polling" => fret.contentAt = 0
        /\ fret.pc = "returned" =>
              /\ fret.value
              /\ fret.polls = IF fret.contentAt # 0 THEN fret.contentAt
                              ELSE max_wait \div wait_interval

\* a stuck switch: the tab was clicked, twenty polls gave the signature of
\* before the click, and True was returned
C18_StuckSwitchReturnsTrue ==
    /\ fcall.fn = "select_body_type"
    /\ fcall.found = "clicked"
    /\ fcall.old_signature # ""
    /\ fret.pc = "returned"
    /\ fret.value
    /\ fret.polls = 20
    /\ fret.differedAt = 0

\* C18, termination: a clicked tab leads to a return of select_body_type.
C18_PollLoopTerminates == Polling ~> (fcall.fn = "select_body_type" /\ fret.pc = "returned")

\* the poll loop is a sequential loop of sleeps: some step is always taken
SpecSelectFair == SpecSelect /\ WF_vars(NextSelect)

----------------------------------------------------------------------------
(* navigate_to_car_model called on its own, on what the browser shows       *)
(* after driver.get(url).  A text is the sequence of its phrases; a URL is  *)
(* the segments of its path, its trailing slashes and its query string.     *)

Window == 2             \* phrases of the page source that are scanned (page_source[:5000])

\* lines 21-35
_BLOCK_INDICATORS ==
    {"access denied", "please verify you are a human", "are you a robot", "captcha",
     "unusual traffic", "too many requests", "rate limit", "blocked", "security check",
     "pardon our interruption", "just a moment", "checking your browser",
     "enable javascript and cookies"}

\* str.lower on the phrases that occur
Lower(w) ==
    CASE w = "CAPTCHA" -> "captcha"
      [] w = "Captcha" -> "captcha"
      [] w = "Access Denied" -> "access denied"
      [] w = "Page Not Found" -> "page not found"
      [] w = "Audi" -> "audi"
      [] w = "A3" -> "a3"
      [] w = "See Pricing" -> "see pricing"
      [] OTHER -> w

LowerAll(text) == [i \in 1..Len(text) |-> Lower(text[i])]

\* text[:n]
Slice(text, n) == SubSeq(text, 1, IF Len(text) < n THEN Len(text) ELSE n)

\* _is_blocked
IsBlocked(page_source, title) ==
    LET combined == LowerAll(title \o <<" ">> \o Slice(page_source, Window))
    IN \E i \in 1..Len(combined) : combined[i] \in _BLOCK_INDICATORS

\* Mutant: the indicators are looked for without lowering the text.
IsBlockedCaseSensitive(page_source, title) ==
    LET combined == title \o <<" ">> \o Slice(page_source, Window)
    IN \E i \in 1..Len(combined) : combined[i] \in _BLOCK_INDICATORS

is_blocked(page_source, title) == IsBlocked(page_source, title)

\* line 75: "404" in self.driver.title or "Page Not Found" in self.driver.page_source
IsNotFoundPage(page_source, title) ==
    \/ \E i \in 1..Len(title) : title[i] = "404"
    \/ \E i \in 1..Len(page_source) : page_source[i] = "Page Not Found"

Url(segments, slashes, query) == [segments |-> segments, slashes |-> slashes, query |-> query]

\* line 86: current_url.rstrip('/').endswith('/specs') -- rstrip removes the
\* slashes at the end of the whole URL string, so nothing when a query string
\* follows the path
EndsWithSpecs(url) ==
    /\ url.query = ""
    /\ url.segments # <<>>
    /\ url.segments[Len(url.segments)] = "specs"

\* line 61: the path of https://www.kbb.com/{make.lower()}/{model.lower()}/{year}/specs/
SpecsPath(target) == <<Lower(target.make), Lower(target.model), target.year, "specs">>

NavTarget == [make |-> "Audi", model |-> "A3", year |-> "2017"]

\* the URLs the site may resolve the request to
ResolvedUrls ==
    { Url(SpecsPath(NavTarget), 1, ""),
      Url(SpecsPath(NavTarget), 0, ""),
      Url(SpecsPath(NavTarget), 1, "?intent=buy-new"),
      Url(<<"audi", "a3", "2017">>, 1, ""),
      Url(<<"audi", "a3", "2018", "specs">>, 1, ""),
      Url(<<"audi", "a4", "2017", "specs">>, 0, ""),
      Url(<<>>, 1, "") }

Titles == {<<>>, <<"2017 Audi A3 Specs">>, <<"404">>, <<"Access Denied">>, <<"blocked">>}

Sources ==
    UNION {[1..n -> {"<table>", "Captcha", "Page Not Found"}] : n \in 0..(Window + 1)}

\* what the browser shows after driver.get(url)
Browsers ==
    [alive : BOOLEAN, title : Titles, page_source : Sources, current_url : ResolvedUrls,
     container : BOOLEAN, tables : 0..1]

\* lines 68, 75, 86, 92-103: what navigate_to_car_model looks at
Classify(b) ==
    [blk |-> is_blocked(b.page_source, b.title),
     nf |-> IsNotFoundPage(b.page_source, b.title),
     specsUrl |-> EndsWithSpecs(b.current_url),
     container |-> b.container,
     tables |-> b.tables]

CallNavigate(target, b) ==
    /\ fcall.fn = "none"
    /\ fcall' = [fn |-> "navigate_to_car_model", target |-> target, browser |-> b]
    /\ fret' = NavigateToCarModel(Classify(b), b.alive)
    /\ UNCHANGED <<exportVars, batchVars, parVars>>

NextNavigate ==
    /\ fcall.fn = "none"
    /\ \E b \in Browsers : CallNavigate(NavTarget, b)

SpecNavigate == InitExportOnly /\ [][NextNavigate]_vars

Navigated == fcall.fn = "navigate_to_car_model" /\ fcall.browser.alive

\* a block indicator, in any case, in the title or in the scanned part of the page source
HasBlockIndicator(b) ==
    \/ \E i \in 1..Len(b.title) : Lower(b.title[i]) \in _BLOCK_INDICATORS
    \/ \E i \in 1..Len(b.page_source) : i <= Window /\ Lower(b.page_source[i]) \in _BLOCK_INDICATORS

\* C19: when the page was fetched and a block/CAPTCHA indicator occurs, in any
\* case, in its title or in the scanned beginning of its source,
\* navigate_to_car_model returns "blocked", whatever the not-found marks, the
\* resolved URL and the tables are.
C19_BlockedBeforeEverythingElse ==
    (Navigated /\ HasBlockIndicator(fcall.browser)) => fret = "blocked"

\* a page with a mixed-case indicator in its source, a 404 title, no table,
\* and a URL that is not a specs URL
C19_BlockedNotFoundPage ==
    /\ Navigated
    /\ fcall.browser.title = <<"404">>
    /\ fcall.browser.page_source = <<"Page Not Found", "Captcha">>
    /\ ~EndsWithSpecs(fcall.browser.current_url)
    /\ ~fcall.browser.container /\ fcall.browser.tables = 0
    /\ fret = "blocked"

\* C20: navigate_to_car_model returns "specs" only when the path of the
\* resolved URL is the specs path of the target, /{make}/{model}/{year}/specs;
\* a page that is neither blocked nor not found and whose path is another one
\* gives "overview".
C20_SpecsOnlyOnCanonicalPath ==
    (Navigated /\ fret \notin {"blocked", "not_found"}) =>
        /\ fcall.browser.current_url.segments # SpecsPath(fcall.target) => fret = "overview"
        /\ fret = "specs" => fcall.browser.current_url.segments = SpecsPath(fcall.target)

----------------------------------------------------------------------------
(* value_parser.generate_vehicle_id called on its own.  A string is the     *)
(* sequence of its characters; the id is the sequence of the 8 bytes that   *)
(* int.from_bytes reads, most significant first, after the mask.            *)

\* ord() of the characters that occur
Code(c) ==
    CASE c = "A" -> 65 [] c = "S" -> 83 [] c = "a" -> 97 [] c = "s" -> 115
      [] c = "|" -> 124 [] c = "0" -> 48 [] c = "1" -> 49 [] c = "2" -> 50
      [] c = "3" -> 51 [] c = "4" -> 52 [] c = "5" -> 53 [] c = "6" -> 54
      [] c = "7" -> 55 [] c = "8" -> 56 [] c = "9" -> 57 [] OTHER -> 63

\* str.lower, character by character
LowerChar(c) ==
    CASE c = "A" -> "a" [] c = "S" -> "s" [] c = "Horsepower" -> "horsepower"
      [] c = "Fuel Economy" -> "fuel economy" [] c = "Leather Seats" -> "leather seats"
      [] OTHER -> c

LowerStr(str) == [i \in 1..Len(str) |-> LowerChar(str[i])]

DigitChar(d) ==
    CASE d = 0 -> "0" [] d = 1 -> "1" [] d = 2 -> "2" [] d = 3 -> "3" [] d = 4 -> "4"
      [] d = 5 -> "5" [] d = 6 -> "6" [] d = 7 -> "7" [] d = 8 -> "8" [] OTHER -> "9"

\* the f-string conversion of a non-negative int
RECURSIVE Str(_)
Str(n) == IF n < 10 THEN <<DigitChar(n)>> ELSE Str(n \div 10) \o <<DigitChar(n % 10)>>

\* hashlib.md5(...).digest(): 16 bytes that depend on every character of the
\* input and on nothing else (a stand-in for the MD5 rounds)
RECURSIVE Mix(_, _, _)
Mix(data, j, acc) ==
    IF data = <<>> THEN acc
    ELSE Mix(Tail(data), j, (acc * 31 + Code(Head(data)) * (j + 1) + j) % 256)

Md5Digest(data) == [j \in 1..16 |-> Mix(data, j, 13 * j)]

\* Mutant: the key is hashed as it was given.
VehicleKeyAsGiven(brand, model, year, trim, body_type) ==
    brand \o <<"|">> \o model \o <<"|">> \o Str(year) \o <<"|">> \o trim \o <<"|">> \o body_type

\* line 255: key = f"{brand}|{model}|{year}|{trim}|{body_type}".lower()
VehicleKey(brand, model, year, trim, body_type) ==
    LowerStr(brand \o <<"|">> \o model \o <<"|">> \o Str(year) \o <<"|">> \o trim
             \o <<"|">> \o body_type)

vehicle_key(brand, model, year, trim, body_type) == VehicleKey(brand, model, year, trim, body_type)

\* lines 258-260: the first 8 bytes of the digest, & 0x7FFFFFFFFFFFFFFF
GenerateVehicleId(brand, model, year, trim, body_type) ==
    LET hash_bytes == Md5Digest(vehicle_key(brand, model, year, trim, body_type))
    IN [j \in 1..8 |-> IF j = 1 THEN hash_bytes[1] % 128 ELSE hash_bytes[j]]

\* the natural keys generate_vehicle_id is called with
IdInputs ==
    [brand : {<<"A">>, <<"a">>}, model : {<<"A", "3">>, <<"a", "3">>}, year : {2017, 2018},
     trim : {<<>>, <<"S">>, <<"s">>}, body_type : {<<"S">>, <<"s">>}]

IdOf(k) == GenerateVehicleId(k.brand, k.model, k.year, k.trim, k.body_type)

\* two calls of generate_vehicle_id, one after the other
CallGenerateIds(k1, k2) ==
    /\ fcall.fn = "none"
    /\ fcall' = [fn |-> "generate_vehicle_id", first |-> k1, second |-> k2]
    /\ fret' = <<IdOf(k1), IdOf(k2)>>
    /\ UNCHANGED <<exportVars, batchVars, parVars>>

NextIds ==
    /\ fcall.fn = "none"
    /\ \E k1, k2 \in IdInputs : CallGenerateIds(k1, k2)

SpecIds == InitExportOnly /\ [][NextIds]_vars

SameIgnoringCase(k1, k2) ==
    /\ LowerStr(k1.brand) = LowerStr(k2.brand)
    /\ LowerStr(k1.model) = LowerStr(k2.model)
    /\ k1.year = k2.year
    /\ LowerStr(k1.trim) = LowerStr(k2.trim)
    /\ LowerStr(k1.body_type) = LowerStr(k2.body_type)

\* C21: two calls of generate_vehicle_id whose inputs are equal, or differ
\* only in letter case, return the same id, and every id is an integer of
\* 0 .. 2^63 - 1: eight bytes, the most significant one below 128.
C21_SameKeySameId ==
    fcall.fn = "generate_vehicle_id" =>
        /\ SameIgnoringCase(fcall.first, fcall.second) => fret[1] = fret[2]
        /\ \A n \in 1..2 :
              /\ Len(fret[n]) = 8
              /\ \A j \in 1..8 : fret[n][j] \in 0..255
              /\ fret[n][1] < 128

\* two keys that differ in the case of every part got one id, and the digest
\* of that key has its top bit set, so the mask did something
C21_CaseVariantsShareId ==
    /\ fcall.fn = "generate_vehicle_id"
    /\ fcall.first.brand = <<"A">> /\ fcall.second.brand = <<"a">>
    /\ fcall.first.model # fcall.second.model
    /\ fcall.first.trim = <<"S">> /\ fcall.second.trim = <<"s">>
    /\ fcall.first.body_type # fcall.second.body_type
    /\ fret[1] = fret[2]
    /\ \E k \in IdInputs : Md5Digest(VehicleKey(k.brand, k.model, k.year, k.trim, k.body_type))[1] >= 128

----------------------------------------------------------------------------
(* SchemaTransformer._build_spec_lookup called on its own.  A raw row is    *)
(* [label, values] as get_specifications returns it: its values are the     *)
(* cells that followed the label, as many as the table row had; a cell is   *)
(* a string, '' is the empty one.                                          *)

MaxRows == 3            \* rows of a specifications list
MaxTrims == 2           \* trims of a body type

\* str.strip
RECURSIVE LStrip(_)
LStrip(str) == IF str # <<>> /\ Head(str) = " " THEN LStrip(Tail(str)) ELSE str

RECURSIVE RStrip(_)
RStrip(str) ==
    IF str # <<>> /\ str[Len(str)] = " " THEN RStrip(SubSeq(str, 1, Len(str) - 1)) ELSE str

Strip(str) == RStrip(LStrip(str))

\* line 200: spec.get('label', ...).strip().lower()
SpecName(spec) == LowerStr(Strip(spec.label))

\* Mutant: the values are taken as the row has them.
ValuesAsGiven(values, num_trims) == values

\* lines 209-212: pad with '' or truncate to the number of trims
PadOrTruncate(values, num_trims) ==
    IF Len(values) < num_trims
    THEN values \o [i \in 1..(num_trims - Len(values)) |-> <<>>]
    ELSE IF Len(values) > num_trims THEN SubSeq(values, 1, num_trims)
    ELSE values

pad_or_truncate(values, num_trims) == PadOrTruncate(values, num_trims)

\* Mutant: a later row with the same name replaces the earlier one.
RecordLast(lookup, spec_name, values) ==
    [n \in (DOMAIN lookup) \cup {spec_name} |-> IF n = spec_name THEN values ELSE lookup[n]]

\* lines 204-206, 214: a name already seen is skipped, a new one is entered
RecordFirst(lookup, spec_name, values) ==
    IF spec_name \in DOMAIN lookup THEN lookup
    ELSE [n \in (DOMAIN lookup) \cup {spec_name} |-> IF n = spec_name THEN values ELSE lookup[n]]

record_spec(lookup, spec_name, values) == RecordFirst(lookup, spec_name, values)

EmptyLookup == [n \in {} |-> <<>>]

\* _build_spec_lookup: the loop of lines 199-214 over the rows that are left
RECURSIVE BuildFrom(_, _, _)
BuildFrom(lookup, specifications, num_trims) ==
    IF specifications = <<>> THEN lookup
    ELSE BuildFrom(record_spec(lookup, SpecName(Head(specifications)),
                               pad_or_truncate(Head(specifications).values, num_trims)),
                   Tail(specifications), num_trims)

BuildSpecLookup(specifications, num_trims) == BuildFrom(EmptyLookup, specifications, num_trims)

\* labels that are equal once stripped and lowered, and one that is not
RawLabels == {<<"A", "s">>, <<" ", "a", "S", " ">>, <<"S">>}

\* the cells after the label: none, fewer, as many as and more than the trims
RawValues == {<<>>, << <<"x">> >>, << <<"x">>, <<"y">> >>, << <<"y">>, <<"x">>, <<"x">> >>}

RawRows == [label : RawLabels, values : RawValues]

SpecLists == UNION {[1..n -> RawRows] : n \in 0..MaxRows}

CallBuildSpecLookup(specifications, num_trims) ==
    /\ fcall.fn = "none"
    /\ fcall' = [fn |-> "_build_spec_lookup", specifications |-> specifications,
                 num_trims |-> num_trims]
    /\ fret' = BuildSpecLookup(specifications, num_trims)
    /\ UNCHANGED <<exportVars, batchVars, parVars>>

NextLookup ==
    /\ fcall.fn = "none"
    /\ \E specs \in SpecLists, n \in 1..MaxTrims : CallBuildSpecLookup(specs, n)

SpecLookup == InitExportOnly /\ [][NextLookup]_vars

BuiltLookup == fcall.fn = "_build_spec_lookup"

\* the first row in table order whose label is name once stripped and lowered
FirstRow(specifications, name) ==
    specifications[CHOOSE i \in 1..Len(specifications) :
                      /\ SpecName(specifications[i]) = name
                      /\ \A j \in 1..(i - 1) : SpecName(specifications[j]) # name]

C25_FirstRowOfALabelWins ==
    BuiltLookup =>
        /\ DOMAIN fret = {SpecName(fcall.specifications[i]) : i \in 1..Len(fcall.specifications)}
        /\ \A name \in DOMAIN fret :
              fret[name] = PadOrTruncate(FirstRow(fcall.specifications, name).values,
                                         fcall.num_trims)

\* three rows, the first and the third with labels that differ only in case
\* and with different values: the entry holds the values of the first
C25_LaterDuplicateDropped ==
    /\ BuiltLookup
    /\ Len(fcall.specifications) = 3
    /\ fcall.num_trims = 1
    /\ fcall.specifications[1].label = <<"A", "s">>
    /\ fcall.specifications[2].label = <<"S">>
    /\ fcall.specifications[3].label = <<" ", "a", "S", " ">>
    /\ fcall.specifications[1].values = << <<"x">> >>
    /\ fcall.specifications[3].values = << <<"y">>, <<"x">>, <<"x">> >>
    /\ fret[<<"a", "s">>] = << <<"x">> >>

----------------------------------------------------------------------------
(* The value parsers of value_parser.py, each called on its own.  A string  *)
(* is the sequence of its characters; a unit or a word the patterns look    *)
(* for as a whole ("kWh/100 mi", "MPGe", "City", "Standard") is one element. *)

MaxChars == 4           \* longest string handed to a parser

DigitChars == {"0", "1", "2", "3", "4", "5", "6", "7", "8", "9"}

DigitVal(c) ==
    CASE c = "0" -> 0 [] c = "1" -> 1 [] c = "2" -> 2 [] c = "3" -> 3 [] c = "4" -> 4
      [] c = "5" -> 5 [] c = "6" -> 6 [] c = "7" -> 7 [] c = "8" -> 8 [] OTHER -> 9

\* re.IGNORECASE / str.lower on the words that occur
LowerWord(c) ==
    CASE c = "kWh/100 mi" -> "kwh/100 mi" [] c = "MPGe" -> "mpge" [] c = "MPG" -> "mpg"
      [] c = "City" -> "city" [] c = "Hwy" -> "hwy" [] c = "Comb" -> "comb"
      [] c = "Standard" -> "standard" [] c = "Optional" -> "optional" [] OTHER -> c

\* the longest prefix made of characters of class: what re.match gives for [class]+
RECURSIVE TakeWhile(_, _)
TakeWhile(str, class) ==
    IF str # <<>> /\ Head(str) \in class THEN <<Head(str)>> \o TakeWhile(Tail(str), class)
    ELSE <<>>

Drop(str, n) == SubSeq(str, n + 1, Len(str))

RECURSIVE Without(_, _)
Without(str, class) ==
    IF str = <<>> THEN <<>>
    ELSE IF Head(str) \in class THEN Without(Tail(str), class)
    ELSE <<Head(str)>> \o Without(Tail(str), class)

\* int() of a string of digits
RECURSIVE IntOf(_)
IntOf(ds) == IF ds = <<>> THEN 0 ELSE IntOf(SubSeq(ds, 1, Len(ds) - 1)) * 10 + DigitVal(ds[Len(ds)])

RECURSIVE Power10(_)
Power10(n) == IF n = 0 THEN 1 ELSE 10 * Power10(n - 1)

None == [kind |-> "none"]
IntValue(n) == [kind |-> "int", value |-> n]
\* a float is num / 10^scale
FloatValue(num, scale) == [kind |-> "float", num |-> num, scale |-> scale]
BoolValue(b) == [kind |-> "bool", value |-> b]
Raised(exc) == [kind |-> "raised", exc |-> exc]

\* float() of a string of digits and dots: ValueError unless there is a digit
\* and at most one dot
Float(str) ==
    LET dots == {i \in 1..Len(str) : str[i] = "."}
        digits == Without(str, {"."})
    IN IF Cardinality(dots) > 1 \/ digits = <<>> THEN Raised("ValueError")
       ELSE FloatValue(IntOf(digits),
                       IF dots = {} THEN 0 ELSE Len(str) - (CHOOSE i \in dots : TRUE))

\* parse_horsepower, parse_torque, parse_top_speed: re.match(r'(\d+)', value.strip())
ParseLeadingInt(value) ==
    IF value = <<>> THEN None
    ELSE LET m == TakeWhile(Strip(value), DigitChars)
         IN IF m # <<>> THEN IntValue(IntOf(m)) ELSE None

\* parse_zero_to_sixty, parse_dimension, parse_volume: re.match(r'([\d.]+)...'),
\* float() inside try / except ValueError
ParseLeadingFloat(value) ==
    IF value = <<>> THEN None
    ELSE LET m == TakeWhile(Strip(value), DigitChars \cup {"."})
         IN IF m = <<>> THEN None
            ELSE IF Float(m).kind = "raised" THEN None ELSE Float(m)

\* parse_weight
ParseWeight(value) ==
    IF value = <<>> THEN None
    ELSE LET m == TakeWhile(Strip(value), DigitChars \cup {","})
             num_str == Without(m, {","})
         IN IF m = <<>> THEN None
            ELSE IF num_str = <<>> THEN None       \* int('') raises ValueError, caught
            ELSE IntValue(IntOf(num_str))

\* parse_price
ParsePrice(value) ==
    IF value = <<>> THEN None
    ELSE LET cleaned == Without(Strip(value), {"$", ","})
             m == TakeWhile(cleaned, DigitChars \cup {"."})
         IN IF m = <<>> THEN None
            ELSE IF Float(m).kind = "raised" THEN None
            ELSE IntValue(Float(m).num \div Power10(Float(m).scale))

\* feature_to_bool
FeatureToBool(value) ==
    IF value = <<>> THEN None
    ELSE LET value_lower == [i \in 1..Len(Strip(value)) |-> LowerWord(Strip(value)[i])]
         IN IF value_lower = <<"standard">> \/ value_lower = <<"optional">>
            THEN BoolValue(TRUE) ELSE None

\* re.search(word + r'\s*(\d+)', value, re.IGNORECASE): the number of the
\* leftmost match, None without a match
RECURSIVE SearchNumberAfter(_, _)
SearchNumberAfter(value, word) ==
    IF value = <<>> THEN None
    ELSE IF LowerWord(Head(value)) = word /\ TakeWhile(LStrip(Tail(value)), DigitChars) # <<>>
         THEN IntValue(IntOf(TakeWhile(LStrip(Tail(value)), DigitChars)))
    ELSE SearchNumberAfter(Tail(value), word)

\* the stripped value is a number, blanks, and then the unit
NumberThenUnit(value, class, unit) ==
    LET str == Strip(value)
        m == TakeWhile(str, class)
        rest == LStrip(Drop(str, Len(m)))
    IN m # <<>> /\ rest # <<>> /\ LowerWord(Head(rest)) = unit

\* line 122: int(3370 / kwh_per_100mi) cuts the fraction off
KwhToMpge(k) == (3370 * Power10(k.scale)) \div k.num

\* parse_fuel_economy: the triple (city, highway, combined), or the exception
ParseFuelEconomy(value) ==
    LET triple(c, h, m) == [kind |-> "triple", city |-> c, highway |-> h, combined |-> m]
        city == SearchNumberAfter(value, "city")
        highway == SearchNumberAfter(value, "hwy")
        comb == SearchNumberAfter(value, "comb")
        str == Strip(value)
        digits == TakeWhile(str, DigitChars)
        number == TakeWhile(str, DigitChars \cup {"."})
    IN IF value = <<>> THEN triple(None, None, None)
       ELSE IF city # None \/ highway # None \/ comb # None THEN triple(city, highway, comb)
       ELSE IF NumberThenUnit(value, DigitChars, "mpge")
            THEN triple(None, None, IntValue(IntOf(digits)))
       ELSE IF NumberThenUnit(value, DigitChars \cup {"."}, "kwh/100 mi")
               /\ Float(number).kind = "raised"
            THEN Float(number)                      \* line 120: float() outside any try
       ELSE IF NumberThenUnit(value, DigitChars \cup {"."}, "kwh/100 mi")
               /\ Float(number).num > 0
            THEN triple(None, None, IntValue(KwhToMpge(Float(number))))
       ELSE IF NumberThenUnit(value, DigitChars, "mpg")
            THEN triple(None, None, IntValue(IntOf(digits)))
       ELSE IF digits # <<>> /\ digits = str /\ IntOf(digits) >= 5 /\ IntOf(digits) <= 200
            THEN triple(None, None, IntValue(IntOf(digits)))
       ELSE triple(None, None, None)

Parsers ==
    {"parse_horsepower", "parse_torque", "parse_zero_to_sixty", "parse_top_speed",
     "parse_fuel_economy", "parse_weight", "parse_dimension", "parse_volume", "parse_price",
     "feature_to_bool"}

Parse(parser, value) ==
    CASE parser \in {"parse_horsepower", "parse_torque", "parse_top_speed"} -> ParseLeadingInt(value)
      [] parser \in {"parse_zero_to_sixty", "parse_dimension", "parse_volume"} -> ParseLeadingFloat(value)
      [] parser = "parse_weight" -> ParseWeight(value)
      [] parser = "parse_price" -> ParsePrice(value)
      [] parser = "feature_to_bool" -> FeatureToBool(value)
      [] OTHER -> ParseFuelEconomy(value)

ParseChars == {"2", "5", ".", ",", " ", "$", "kWh/100 mi", "MPGe", "City", "Standard"}

ParseInputs == UNION {[1..n -> ParseChars] : n \in 0..MaxChars}

CallParser(parser, value) ==
    /\ fcall' = [fn |-> parser, value |-> value]
    /\ fret' = Parse(parser, value)
    /\ UNCHANGED <<exportVars, batchVars, parVars>>

NextParse ==
    /\ fcall.fn = "none"
    /\ \E parser \in Parsers, value \in ParseInputs : CallParser(parser, value)

SpecParse == InitExportOnly /\ [][NextParse]_vars

\* round(a / b) for positive integers, halves to the even neighbour
RoundDiv(a, b) ==
    LET q == a \div b
        r == a % b
    IN IF 2 * r < b THEN q
       ELSE IF 2 * r > b THEN q + 1
       ELSE IF q % 2 = 0 THEN q ELSE q + 1

\* the value is "K kWh/100 mi" for a number K > 0
IsKwhPer100Mi(value) ==
    /\ Len(value) >= 3
    /\ value[Len(value)] = "kWh/100 mi"
    /\ value[Len(value) - 1] = " "
    /\ \A i \in 1..(Len(value) - 2) : value[i] \in DigitChars \cup {"."}
    /\ Float(SubSeq(value, 1, Len(value) - 2)).kind = "float"
    /\ Float(SubSeq(value, 1, Len(value) - 2)).num > 0

\* C23: for "K kWh/100 mi" with K > 0, parse_fuel_economy returns
\* (None, None, round(3370 / K)).
C23_KwhRoundedToNearest ==
    (fcall.fn = "parse_fuel_economy" /\ IsKwhPer100Mi(fcall.value)) =>
        LET k == Float(SubSeq(fcall.value, 1, Len(fcall.value) - 2))
        IN /\ fret.kind = "triple"
           /\ fret.city = None /\ fret.highway = None
           /\ fret.combined = IntValue(RoundDiv(3370 * Power10(k.scale), k.num))

\* C24: whatever string a value parser is given, it returns a value or None
\* and raises nothing.
C24_ParsersNeverRaise ==
    fcall.fn \in Parsers => fret.kind # "raised"

----------------------------------------------------------------------------
(* SchemaTransformer.transform called on its own.  raw_data['bodytypes'] is *)
(* the sequence of its items in dict order; a label the transformer looks   *)
(* up as a whole ("Horsepower", "Fuel Economy") is one element of a string. *)

MaxBodyTypes == 3       \* body types of one scrape result

\* clean_trim_name: strip, drop a leading "Save X of Y ", strip
CleanTrimName(trim_name) ==
    LET str == Strip(trim_name)
    IN IF str # <<>> /\ Head(str) = "Save 1 of 3 " THEN Strip(Tail(str)) ELSE str

StrValue(str) == [kind |-> "str", value |-> str]

\* _get_spec_value; trim_idx counts from 1 here
GetSpecValue(spec_lookup, spec_name, trim_idx) ==
    IF spec_name \in DOMAIN spec_lookup
       /\ spec_lookup[spec_name] # <<>>
       /\ trim_idx <= Len(spec_lookup[spec_name])
       /\ spec_lookup[spec_name][trim_idx] # <<>>
    THEN StrValue(spec_lookup[spec_name][trim_idx])
    ELSE None

\* _create_vehicle (the fields taken over as they are left out)
CreateVehicle(vehicle_id, make, model, year, trim, body_type, spec_lookup, trim_idx) ==
    [vehicle_id |-> vehicle_id, brand |-> make, model |-> model, year |-> year, trim |-> trim,
     body_type |-> body_type]

\* _create_specs: the parsers are applied to the values that are there; an
\* exception of parse_fuel_economy leaves _create_specs
CreateSpecs(vehicle_id, spec_lookup, trim_idx) ==
    LET hp_str == GetSpecValue(spec_lookup, <<"horsepower">>, trim_idx)
        fe_str == GetSpecValue(spec_lookup, <<"fuel economy">>, trim_idx)
        fe == IF fe_str # None THEN ParseFuelEconomy(fe_str.value)
              ELSE [kind |-> "triple", city |-> None, highway |-> None, combined |-> None]
    IN IF fe.kind = "raised" THEN fe
       ELSE [kind |-> "specs", vehicle_id |-> vehicle_id,
             horsepower |-> IF hp_str # None THEN ParseLeadingInt(hp_str.value) ELSE None,
             mpg_city |-> fe.city, mpg_highway |-> fe.highway, mpg_combined |-> fe.combined]

\* _create_features
CreateFeatures(vehicle_id, spec_lookup, trim_idx) ==
    LET val == GetSpecValue(spec_lookup, <<"leather seats">>, trim_idx)
    IN [vehicle_id |-> vehicle_id,
        leather_seats |-> IF val # None THEN FeatureToBool(val.value) ELSE None]

EmptyDataset == [kind |-> "dataset", vehicles |-> <<>>, specs |-> <<>>, features |-> <<>>,
                 scores |-> <<>>]

\* FourTableDataset.add_vehicle
AddVehicle(dataset, vehicle, specs, features, scores) ==
    [dataset EXCEPT !.vehicles = Append(@, vehicle), !.specs = Append(@, specs),
                    !.features = Append(@, features), !.scores = Append(@, scores)]

\* lines 164-187: the loop over the trims from trim_idx on
RECURSIVE TransformTrims(_, _, _, _, _, _, _, _)
TransformTrims(dataset, trim_names, trim_idx, make, model, year, tab_name, spec_lookup) ==
    IF trim_idx > Len(trim_names) THEN dataset
    ELSE LET trim_name == CleanTrimName(trim_names[trim_idx])
             vehicle_id == GenerateVehicleId(make, model, IntOf(year), trim_name, tab_name)
             specs == CreateSpecs(vehicle_id, spec_lookup, trim_idx)
         IN IF specs.kind = "raised" THEN specs
            ELSE TransformTrims(
                    AddVehicle(dataset,
                               CreateVehicle(vehicle_id, make, model, IntOf(year), trim_name,
                                             tab_name, spec_lookup, trim_idx),
                               specs,
                               CreateFeatures(vehicle_id, spec_lookup, trim_idx),
                               [vehicle_id |-> vehicle_id]),
                    trim_names, trim_idx + 1, make, model, year, tab_name, spec_lookup)

\* line 156: if not specifications or not trim_names
IsSkipped(bodytype_data) ==
    bodytype_data.specifications = <<>> \/ bodytype_data.trim_names = <<>>

is_skipped(bodytype_data) == IsSkipped(bodytype_data)

\* _transform_bodytype
TransformBodytype(dataset, bodytype_data, make, model, year, body_type) ==
    IF is_skipped(bodytype_data) THEN dataset
    ELSE TransformTrims(dataset, bodytype_data.trim_names, 1, make, model, year, body_type,
                        BuildSpecLookup(bodytype_data.specifications,
                                        Len(bodytype_data.trim_names)))

\* transform: the loop of lines 116-122 over the body types that are left
RECURSIVE TransformFrom(_, _, _, _, _)
TransformFrom(dataset, bodytypes, make, model, year) ==
    IF bodytypes = <<>> \/ dataset.kind = "raised" THEN dataset
    ELSE TransformFrom(TransformBodytype(dataset, Head(bodytypes).data, make, model, year,
                                         Head(bodytypes).body_type),
                       Tail(bodytypes), make, model, year)

Transform(raw_data, make, model, year) ==
    TransformFrom(EmptyDataset, raw_data.bodytypes, make, model, year)

RawRow(label, values) == [label |-> label, values |-> values]

\* what one body type of a scrape result may hold
BodytypeData ==
    { [trim_names |-> <<>>, specifications |-> <<>>],
      [trim_names |-> << <<"S">> >>, specifications |-> <<>>],
      [trim_names |-> <<>>, specifications |-> <<RawRow(<<"Horsepower">>, << <<"2", "5">> >>)>>],
      [trim_names |-> << <<"S">> >>,
       specifications |-> <<RawRow(<<"Horsepower">>, << <<"2", "5">> >>)>>],
      [trim_names |-> << <<"S">>, <<"Save 1 of 3 ", "A">> >>,
       specifications |-> <<RawRow(<<"Fuel Economy">>, << <<"2", "5", " ", "MPGe">>, <<>> >>),
                            RawRow(<<"Leather Seats">>, << <<"Standard">> >>)>>],
      [trim_names |-> << <<"A">> >>,
       specifications |-> <<RawRow(<<"Fuel Economy">>, << <<".", " ", "kWh/100 mi">> >>)>>] }

BodyTypeNames == <<"S", "A", "s", "a">>

RawResults ==
    UNION {{[bodytypes |-> [i \in 1..n |-> [body_type |-> <<BodyTypeNames[i]>>, data |-> d[i]]]]
               : d \in [1..n -> BodytypeData]} : n \in 0..MaxBodyTypes}

CallTransform(raw_data) ==
    /\ fcall' = [fn |-> "transform", raw_data |-> raw_data, make |-> <<"A">>,
                 model |-> <<"A", "3">>, year |-> <<"2", "0", "1", "7">>]
    /\ fret' = Transform(raw_data, <<"A">>, <<"A", "3">>, <<"2", "0", "1", "7">>)
    /\ UNCHANGED <<exportVars, batchVars, parVars>>

NextTransform ==
    /\ fcall.fn = "none"
    /\ \E raw_data \in RawResults : CallTransform(raw_data)

SpecTransform == InitExportOnly /\ [][NextTransform]_vars

\* the (body type, trim) pairs of the body types that have trim names and
\* specifications, in the order of the result
RECURSIVE TrimsToTransform(_)
TrimsToTransform(bodytypes) ==
    IF bodytypes = <<>> THEN <<>>
    ELSE (IF IsSkipped(Head(bodytypes).data) THEN <<>>
          ELSE [k \in 1..Len(Head(bodytypes).data.trim_names) |->
                   [body_type |-> Head(bodytypes).body_type,
                    trim |-> CleanTrimName(Head(bodytypes).data.trim_names[k])]])
         \o TrimsToTransform(Tail(bodytypes))

\* C26: transform raises nothing, and the dataset it returns holds exactly one
\* vehicle, one specs, one features and one scores record, all with the same
\* vehicle_id, for every trim of every body type that has both trim names and
\* specifications, in order, and nothing for the other body types.
C26_OneRecordSetPerTrim ==
    fcall.fn = "transform" =>
        LET expected == TrimsToTransform(fcall.raw_data.bodytypes)
        IN /\ fret.kind = "dataset"
           /\ Len(fret.vehicles) = Len(expected)
           /\ Len(fret.specs) = Len(expected)
           /\ Len(fret.features) = Len(expected)
           /\ Len(fret.scores) = Len(expected)
           /\ \A k \in 1..Len(expected) :
                 /\ fret.vehicles[k].trim = expected[k].trim
                 /\ fret.vehicles[k].body_type = expected[k].body_type
                 /\ fret.specs[k].vehicle_id = fret.vehicles[k].vehicle_id
                 /\ fret.features[k].vehicle_id = fret.vehicles[k].vehicle_id
                 /\ fret.scores[k].vehicle_id = fret.vehicles[k].vehicle_id

\* What does hold: whenever transform returns, the dataset is as C26 says.
C26_OneRecordSetPerTrimUnlessRaised ==
    (fcall.fn = "transform" /\ fret.kind = "dataset") =>
        LET expected == TrimsToTransform(fcall.raw_data.bodytypes)
        IN /\ Len(fret.vehicles) = Len(expected)
           /\ Len(fret.specs) = Len(expected)
           /\ Len(fret.features) = Len(expected)
           /\ Len(fret.scores) = Len(expected)
           /\ \A k \in 1..Len(expected) :
                 /\ fret.vehicles[k].trim = expected[k].trim
                 /\ fret.vehicles[k].body_type = expected[k].body_type
                 /\ {fret.specs[k].vehicle_id, fret.features[k].vehicle_id,
                     fret.scores[k].vehicle_id} = {fret.vehicles[k].vehicle_id}

----------------------------------------------------------------------------
(* scrape_car_model on a specs page with several body-type tabs, one step   *)
(* per call it makes.  The browser shows one tab at a time; the log holds   *)
(* the calls to select_body_type and scrape_current_body_type_data in the   *)
(* order they are made.                                                     *)

MaxTabs == 3            \* tabs enumerated by get_all_body_types

TabName(i) ==
    CASE i = 1 -> "Sedan" [] i = 2 -> "Coupe" [] i = 3 -> "Wagon" [] i = 4 -> "SUV"
      [] OTHER -> ToString(i)

\* what get_all_body_types returns: distinct names, more than one tab
TabLists == {[i \in 1..n |-> TabName(i)] : n \in 2..MaxTabs}

\* what a tab holds once it is shown
TabData ==
    { NoData,
      [trim_names |-> TrimsLXEX, specifications |-> EngineRow],
      [trim_names |-> <<>>, specifications |-> EngineRow] }

\* line 859, line 874
HasData(data) == data.trim_names # <<>> \/ data.specifications # <<>>

\* select_body_type: the tab is found, clicked and shown; or it is clicked and
\* the content never changes (True all the same); or it is not found (False)
SelectOutcomes == {"switched", "stuck", "not_found"}

Selected(outcome) == outcome # "not_found"

ScrapeRegardless(ok) == TRUE

\* line 870: if self.select_body_type(body_type):
may_scrape(ok) == ok

ScrapingTabs == fcall.fn = "scrape_tabs"

\* lines 868-880: the place in the loop after tab i has been handled
AfterTab(i) == IF i < Len(fcall.body_types) THEN "select" ELSE "save"

\* lines 842, 852-862: the tabs are enumerated and the first one, which is
\* the one shown, is scraped
ScrapeFirstTab(body_types, content) ==
    /\ fcall' = [fn |-> "scrape_tabs", body_types |-> body_types, content |-> content]
    /\ LET first_body_type == body_types[1]
           data == content[first_body_type]
       IN fret' = [pc |-> IF Len(body_types) > 1 THEN "select" ELSE "save",
                   i |-> 1,
                   shown |-> first_body_type,
                   log |-> <<[op |-> "scrape", tab |-> first_body_type, ok |-> HasData(data)]>>,
                   bodytypes |-> IF HasData(data)
                                 THEN <<BodyType(first_body_type, data.trim_names,
                                                 data.specifications)>>
                                 ELSE <<>>]
    /\ UNCHANGED <<exportVars, batchVars, parVars>>

\* lines 866-870 and 879-880: the next tab is selected
SelectNextTab(outcome) ==
    /\ ScrapingTabs
    /\ fret.pc = "select"
    /\ LET i == fret.i + 1
           body_type == fcall.body_types[i]
       IN fret' = [fret EXCEPT
                     !.i = i,
                     !.shown = IF outcome = "switched" THEN body_type ELSE @,
                     !.log = Append(@, [op |-> "select", tab |-> body_type,
                                        ok |-> Selected(outcome)]),
                     !.pc = IF may_scrape(Selected(outcome)) THEN "scrape" ELSE AfterTab(i)]
    /\ UNCHANGED <<fcall, exportVars, batchVars, parVars>>

\* lines 872-878: the tab that is shown is scraped under the selected name
ScrapeSelectedTab ==
    /\ ScrapingTabs
    /\ fret.pc = "scrape"
    /\ LET body_type == fcall.body_types[fret.i]
           data == fcall.content[fret.shown]
       IN fret' = [fret EXCEPT
                     !.log = Append(@, [op |-> "scrape", tab |-> body_type,
                                        ok |-> HasData(data)]),
                     !.bodytypes = IF HasData(data)
                                   THEN Append(@, BodyType(body_type, data.trim_names,
                                                           data.specifications))
                                   ELSE @,
                     !.pc = AfterTab(fret.i)]
    /\ UNCHANGED <<fcall, exportVars, batchVars, parVars>>

\* lines 883-885
SaveTabs ==
    /\ ScrapingTabs
    /\ fret.pc = "save"
    /\ fret' = [fret EXCEPT !.pc = "returned"]
    /\ UNCHANGED <<fcall, exportVars, batchVars, parVars>>

EnumerateTabs ==
    /\ fcall.fn = "none"
    /\ \E body_types \in TabLists :
          \E content \in [Range(body_types) -> TabData] : ScrapeFirstTab(body_types, content)

NextTabs ==
    \/ EnumerateTabs
    \/ \E outcome \in SelectOutcomes : SelectNextTab(outcome)
    \/ ScrapeSelectedTab
    \/ SaveTabs

SpecTabs == InitExportOnly /\ [][NextTabs]_vars

\* the calls of one kind in the log
CallsOf(op) == SelectSeq(fret.log, LAMBDA e : e.op = op)

\* position of the tab in the enumeration
TabIndex(tab) == CHOOSE i \in 1..Len(fcall.body_types) : fcall.body_types[i] = tab

\* C27: the first call is the scrape of the first tab, with no click before
\* it; the other tabs are selected one after the other in enumeration order;
\* a tab other than the first is scraped only directly after select_body_type
\* returned True for that tab; and the result holds an entry for a tab only if
\* the tab was scraped with trims or specifications, so that a tab whose
\* selection failed or whose scrape gave nothing has no entry.
C27_TabsScrapedInOrderAfterSelection ==
    ScrapingTabs =>
        LET log == fret.log
            selects == CallsOf("select")
            scrapes == CallsOf("scrape")
        IN /\ log[1] = [op |-> "scrape", tab |-> fcall.body_types[1],
                        ok |-> HasData(fcall.content[fcall.body_types[1]])]
           /\ \A n \in 1..Len(selects) : selects[n].tab = fcall.body_types[n + 1]
           /\ \A k \in 2..Len(log) :
                 /\ TabIndex(log[k].tab) >= TabIndex(log[k - 1].tab)
                 /\ log[k].op = "scrape" =>
                       log[k - 1] = [op |-> "select", tab |-> log[k].tab, ok |-> TRUE]
           /\ fret.bodytypes =
                 [n \in 1..Len(SelectSeq(scrapes, LAMBDA e : e.ok)) |->
                     LET e == SelectSeq(scrapes, LAMBDA x : x.ok)[n]
                     IN CHOOSE b \in Range(fret.bodytypes) : b.name = e.tab]
           /\ \A b \in Range(fret.bodytypes) :
                 /\ HasData(b)
                 /\ \E e \in Range(scrapes) : e.tab = b.name /\ e.ok
           /\ fret.pc = "returned" => Len(selects) = Len(fcall.body_types) - 1

\* three tabs handled: one selection failed, one scrape gave nothing, one
\* clicked tab is in the result
C27_FailedAndEmptyTabsLeftOut ==
    /\ ScrapingTabs
    /\ fret.pc = "returned"
    /\ Len(fcall.body_types) = 3
    /\ \E e \in Range(fret.log) : e.op = "select" /\ ~e.ok
    /\ \E e \in Range(fret.log) : e.op = "scrape" /\ ~e.ok
    /\ \E b \in Range(fret.bodytypes) : b.name # fcall.body_types[1]

----------------------------------------------------------------------------
(* The counters of the batch loop (main.py lines 295-339; the loop over the *)
(* vehicle dictionary, lines 370-406, has the same try block without the    *)
(* check of the record).                                                    *)

\* C28: every target is counted exactly once: at each loop boundary
\* successful + failed is the number of targets handled so far, at the end
\* of the run it is the number of targets in the batch, and no target is
\* counted both as successful and as failed.
C28_EveryTargetCountedOnce ==
    /\ successful + failed = bi - 1
    /\ bpc = "done" => successful + failed = Len(Batch)
    /\ \A i \in 1..Len(tlog) : tlog[i].dSuccessful + tlog[i].dFailed = 1

\* What does hold: every target is counted at least once, and twice only when
\* scrape_reviews raised after the target had been counted as successful.
C28_CountedTwiceOnlyWhenReviewsRaise ==
    /\ successful + failed = (bi - 1) + Cardinality({i \in 1..Len(tlog) : tlog[i].threw})
    /\ \A i \in 1..Len(tlog) :
          tlog[i].dSuccessful + tlog[i].dFailed = IF tlog[i].threw THEN 2 ELSE 1

----------------------------------------------------------------------------
(* From the comparison table to the CSV rows: get_specifications reads the  *)
(* rows of the table, scrape_current_body_type_data takes the trim names    *)
(* from the first row it got, flatten_one_scrape gives values[k] to trim k. *)
(* A table is a sequence of rows of cell texts; the first cell of a row is  *)
(* the label column, the others are the trim columns.                       *)

MaxCols == 3            \* trim columns of the table

\* the trim named in the header of a trim column
TrimText(c) == CASE c = 1 -> "LX" [] c = 2 -> "EX" [] c = 3 -> "SE" [] OTHER -> ToString(c)

\* the text of a filled cell of a trim column
ValueText(c) ==
    CASE c = 1 -> "2.0L" [] c = 2 -> "2.5L" [] c = 3 -> "3.0L" [] OTHER -> ToString(10 * c)

\* len(text) of the texts that occur
TextLen(text) ==
    CASE text = "" -> 0 [] text = "S" -> 1
      [] text \in {"LX", "EX", "SE"} -> 2
      [] text = "N/A" -> 3
      [] text \in {"2.0L", "2.5L", "3.0L"} -> 4
      [] text \in {"Engine", "0 - 60"} -> 6
      [] text = "See Pricing" -> 11
      [] text = "Save1 of 3LX" -> 12
      [] OTHER -> 2

\* lines 457-458
skip_labels == {"specifications", "features", "compare", "save", "see pricing", ""}

\* name_lower.startswith(('save ', 'see '))
StartsWithSkipPrefix(name_lower) == name_lower = "see pricing"

\* lines 482-486: the index of the first cell with more than one character,
\* 0 when there is none
SpecNameIndex(cell_texts) ==
    LET named == {idx \in 1..Len(cell_texts) : TextLen(cell_texts[idx]) > 1}
    IN IF named = {} THEN 0 ELSE CHOOSE idx \in named : \A j \in named : idx <= j

\* line 495
ValuesFrom(cell_texts, value_start_idx) ==
    [j \in 1..(Len(cell_texts) - value_start_idx + 1) |->
        LET text == cell_texts[value_start_idx + j - 1]
        IN IF text # "" THEN text ELSE "N/A"]

\* lines 460-501 for one row: the specs it adds
SpecOfRow(cell_texts) ==
    LET idx == SpecNameIndex(cell_texts)
    IN IF Len(cell_texts) < 2 \/ idx = 0 THEN <<>>
       ELSE LET spec_name == cell_texts[idx]
                name_lower == Lower(spec_name)
                values == ValuesFrom(cell_texts, idx + 1)
            IN IF name_lower \in skip_labels \/ StartsWithSkipPrefix(name_lower) THEN <<>>
               ELSE IF values = <<>> THEN <<>>
               ELSE <<[label |-> spec_name, values |-> values]>>

\* KBBResearchScraper.get_specifications on the rows of the table
GetSpecifications(table) == ConcatAll([r \in 1..Len(table) |-> SpecOfRow(table[r])])

\* KBBResearchScraper._clean_trim_name
_clean_trim_name(raw_name) == IF raw_name = "Save1 of 3LX" THEN "LX" ELSE raw_name

\* lines 583-590: the values of the first row that are trim names
RECURSIVE OtherTrims(_)
OtherTrims(values) ==
    IF values = <<>> THEN <<>>
    ELSE LET cleaned_val == _clean_trim_name(Head(values))
         IN (IF cleaned_val # "" /\ cleaned_val # "N/A" THEN <<cleaned_val>> ELSE <<>>)
            \o OtherTrims(Tail(values))

\* lines 572-598: trim names from the first row, the other rows are the specs
ScrapeTable(table) ==
    LET all_specs == GetSpecifications(table)
    IN IF all_specs = <<>> THEN NoData
       ELSE LET first_spec == all_specs[1]
                cleaned_label == _clean_trim_name(first_spec.label)
            IN [trim_names |-> (IF cleaned_label # "" THEN <<cleaned_label>> ELSE <<>>)
                                 \o OtherTrims(first_spec.values),
                specifications |-> Tail(all_specs)]

\* the header cells of trim column c: the trim's name, plain or with the
\* "Save 1 of 3" badge, a one-letter trim name, an empty cell, a placeholder
HeaderTexts(c) == {TrimText(c), "", "N/A"} \cup (IF c = 1 THEN {"Save1 of 3LX", "S"} ELSE {})

HeaderRows ==
    UNION {{<<"">> \o h : h \in {g \in [1..n -> UNION {HeaderTexts(c) : c \in 1..n}] :
                                    \A c \in 1..n : g[c] \in HeaderTexts(c)}}
              : n \in 2..MaxCols}

\* a row of the body: its label, then one cell per trim column
BodyRows(label, n) ==
    {<<label>> \o v : v \in {g \in [1..n -> {ValueText(c) : c \in 1..n} \cup {""}] :
                                  \A c \in 1..n : g[c] \in {ValueText(c), ""}}}

PricingRow(n) == <<"See Pricing">> \o [c \in 1..n |-> ""]

Tables ==
    UNION {{<<h, PricingRow(Len(h) - 1), e>> : e \in BodyRows("Engine", Len(h) - 1)}
           \cup {<<h, e>> : e \in BodyRows("0 - 60", Len(h) - 1)} : h \in HeaderRows}

CallScrapeTable(table) ==
    /\ fcall' = [fn |-> "scrape_table", table |-> table]
    /\ LET data == ScrapeTable(table)
       IN fret' = [data |-> data,
                   rows |-> FlattenBodyType("Audi", "A3", "2017",
                                BodyType("Default", data.trim_names, data.specifications))]
    /\ UNCHANGED <<exportVars, batchVars, parVars>>

NextTable ==
    /\ fcall.fn = "none"
    /\ \E table \in Tables : CallScrapeTable(table)

SpecTable == InitExportOnly /\ [][NextTable]_vars

\* the columns of the table whose header names the trim
ColumnsOf(table, trim) == {c \in 2..Len(table[1]) : _clean_trim_name(table[1][c]) = trim}

\* what an extracted value shows of a cell
CellValue(text) == IF text # "" THEN text ELSE "N/A"

\* the rows of the table that give a specification
BodyRowsOf(table) == {r \in 2..Len(table) : table[r][1] \in FIXED_SET}

\* C29: for the trim at position k of the trim names, the value that the CSV
\* row of that trim gets for a spec row is the cell of that row in the column
\* whose header names the trim, whatever cells of the header row are empty or
\* placeholders.
C29_ValuesAlignedWithTrimColumns ==
    fcall.fn = "scrape_table" =>
        \A k \in 1..Len(fret.data.trim_names) :
            \E c \in ColumnsOf(fcall.table, fret.data.trim_names[k]) :
                \A r \in BodyRowsOf(fcall.table) :
                    Get(fret.rows[k], fcall.table[r][1], "") = CellValue(fcall.table[r][c])

\* the header row is the corner cell, then trim names of more than one
\* letter, then nothing but empty cells
HeaderFilledFromTheLeft(header) ==
    \E m \in 1..(Len(header) - 1) :
        /\ \A c \in 2..(m + 1) : header[c] \notin {"", "N/A", "S"}
        /\ \A c \in (m + 2)..Len(header) : header[c] \in {"", "N/A"}

\* What does hold: the values are aligned with the trims when the header
\* row has its empty and placeholder cells after the trim names only.
C29_AlignedWhenHeaderFilledFromTheLeft ==
    (fcall.fn = "scrape_table" /\ HeaderFilledFromTheLeft(fcall.table[1])) =>
        /\ Len(fret.data.trim_names) >= 1
        /\ \A k \in 1..Len(fret.data.trim_names) :
              /\ ColumnsOf(fcall.table, fret.data.trim_names[k]) = {k + 1}
              /\ \A r \in BodyRowsOf(fcall.table) :
                    Get(fret.rows[k], fcall.table[r][1], "") = CellValue(fcall.table[r][k + 1])

\* A header with an empty cell between two trims: the second trim, named in
\* the third trim column, gets the cell of the second trim column.
C29_PlaceholderShiftsValues ==
    /\ fcall.fn = "scrape_table"
    /\ fcall.table = << <<"", "LX", "", "SE">>, <<"0 - 60", "2.0L", "2.5L", "3.0L">> >>
    /\ fret.data.trim_names = <<"LX", "SE">>
    /\ fret.rows[2]["trim"] = "SE"
    /\ fret.rows[2]["0 - 60"] = "2.5L"

----------------------------------------------------------------------------
(* The browser sessions of a batch run (main.py lines 299-300, 333-339 and  *)
(* _recreate_scraper).  A session that has crashed is not closed until its  *)
(* driver is quit.                                                          *)

\* the sessions whose driver has not been quit
Unclosed == {d \in DOMAIN drivers : drivers[d] # "closed"}

\* C30: at every point of the batch run at most one session has not been
\* closed, and it is the one the specs scraper holds; the reviews scraper,
\* when enabled, holds the same session as the specs scraper; the old session
\* is closed before the new one is created; a target is never started on a
\* closed session; and when the run is over every session is closed.
C30_AtMostOneSessionOpen ==
    /\ Cardinality(Unclosed) <= 1
    /\ Unclosed \subseteq {scraper}
    /\ reviews_scraper = IF flags.with_reviews THEN scraper ELSE 0
    /\ bpc = "create" => Unclosed = {}
    /\ bpc \in {"loop", "recreate"} => Unclosed = {scraper}
    /\ bpc = "done" => Unclosed = {}

\* A run with reviews in which the session crashed and was rebuilt is over:
\* two sessions were created, both are closed, and the reviews scraper was
\* bound to the second one.
C30_BothSessionsClosedAtEnd ==
    /\ bpc = "done"
    /\ flags.with_reviews
    /\ Len(drivers) = 2
    /\ drivers = <<"closed", "closed">>
    /\ reviews_scraper = 2 /\ scraper = 2

=============================================================================
